---- MODULE Spec2Model ----
(***************************************************************************)
(* One bank of the pad engine: PadsHandler (src/src/audio/pads.rs) over    *)
(* the ActiveEvent, Recorder and Pool of src/src/audio/active.rs.          *)
(*                                                                         *)
(* A step is one command taken from the command channel by                 *)
(* PadsHandler::tick, or the grain read that ends a callback.              *)
(***************************************************************************)
EXTENDS Integers, Sequences, FiniteSets, TLC

(* ---------------------------------------------------------------------- *)
(* Program constants                                                       *)
(* ---------------------------------------------------------------------- *)
PAD_COUNT == 8
GRAIN_LEN == 1024
WAV_HEADER == 44
MAX_PHRASE_LEN == 128
PPQ == 24
STEP_DIV == 4
LOOP_DIV == 8
U16 == 65536

(* ---------------------------------------------------------------------- *)
(* Bounds of the model                                                     *)
(* ---------------------------------------------------------------------- *)
\* pads 0 .. NumPads-1 are the ones the control side addresses
NumPads == 2
\* Clock commands are accepted while clock < MaxClock
MaxClock == 4
\* events are realized while the recorder ring is shorter than MaxRing
MaxRing == 3
\* PushPool is accepted while the pool sequence is shorter than MaxPool
MaxPool == 2
\* the recorder alone is pushed to up to step MaxStep
MaxStep == 260
\* Wav::seek alone is applied to the offsets -MaxSeek .. MaxSeek
MaxSeek == 30
\* the control side sends while fewer than MaxPending commands are pending
MaxPending == 3
\* the commands pending on the channel of the TUI
MaxTui == 2
\* events in the recorder's ring while the keys are played
MaxKeyEvents == 1
\* frames of one grain in the model of the pads thread and its ring buffer
RunGrain == 2
\* MIDI clock pulses followed since startup or the last Stop
MaxPulse == 14

(* ---------------------------------------------------------------------- *)
(* Values                                                                  *)
(* ---------------------------------------------------------------------- *)
None == [tag |-> "None"]
Some(v) == [tag |-> "Some", v |-> v]

Fraction(n, d) == [numerator |-> n, denominator |-> d]

\* user-level events (super::Event)
EvSync == [tag |-> "Sync"]
EvHold(i) == [tag |-> "Hold", index |-> i]
EvLoop(i, l) == [tag |-> "Loop", index |-> i, len |-> l]

\* playing events (active::Event)
Sync == [tag |-> "Sync"]
Hold(o) == [tag |-> "Hold", onset |-> o]
Loop(o, l) == [tag |-> "Loop", onset |-> o, len |-> l]

Stamped(e, s) == [event |-> e, step |-> s]

\* the WAV all onsets of the model point into: natural tempo, step count and
\* PCM body length in bytes
TheWav == [tempo |-> Some(480), steps |-> 4, len |-> 24]

\* the onset the control side assigns to alt a (0) or alt b (1) of a pad
KitOnset(alt) == [wav |-> TheWav, start |-> 8 * alt]

UsedPads == 0 .. (NumPads - 1)
Alts == {0, 1}
LoopLens == {Fraction(1, LOOP_DIV), Fraction(4, LOOP_DIV)}
InputEvents ==
    {EvSync} \cup {EvHold(i) : i \in UsedPads}
             \cup {EvLoop(i, l) : i \in UsedPads, l \in LoopLens}
\* the control side derives the tempo from the interval between two Clocks
TempoValues == {120}
BiasValues == {0, 50, 100}
BakeLens == {2, MAX_PHRASE_LEN}
DriftValues == {0}
SpeedValues == {1}
WidthValues == {100}

VARIABLES
    quant, clock, tempo, bias, drift, speed, width,
    pads, input, record, pool,
    overflow_checks, panicked, last,
    cmd_rx,
    run,
    foreign,
    handler,
    tui_handler

\* the state of the PadsHandler and of its command channel
engine == <<quant, clock, tempo, bias, drift, speed, width,
            pads, input, record, pool, overflow_checks, panicked, last, cmd_rx>>
vars == <<engine, run, foreign, handler, tui_handler, tui_handler>>

(* ---------------------------------------------------------------------- *)
(* Wav cursor                                                              *)
(* ---------------------------------------------------------------------- *)
Even(x) == x - (x % 2)

\* a seek with the truncating remainder (the sign of the offset) in place
\* of rem_euclid
seek_truncating(wav, offset) ==
    [wav EXCEPT !.file.pos =
        WAV_HEADER + (IF offset < 0 THEN 0 - ((0 - offset) % wav.len)
                                    ELSE offset % wav.len)]
\* Wav::seek: the stream position after seek(offset)
seek(wav, offset) ==
    [wav EXCEPT !.file.pos = WAV_HEADER + (offset % wav.len)]

\* Wav::pos: stream position minus the header, a u64 subtraction.  A
\* negative value stands for the wrapped result 2^64 + pos, which is what
\* the subtraction yields without overflow checks; cast to i64 it is pos.
pos_underflows(wav) == wav.file.pos < WAV_HEADER
pos(wav) == wav.file.pos - WAV_HEADER

(* ---------------------------------------------------------------------- *)
(* Kit and file handles                                                    *)
(* ---------------------------------------------------------------------- *)
DefaultPad == [onsets |-> <<None, None>>, phrase |-> None]

\* the onset held by an active event, if any
EventOnsets(e) == IF e.tag = "Sync" THEN {} ELSE {e.onset}
PhraseOnsets(p) == IF p = None THEN {} ELSE EventOnsets(p.v.active)

\* every ActiveOnset that is alive in the bank
LiveOnsets ==
    EventOnsets(input.active) \cup PhraseOnsets(record.active)
                              \cup PhraseOnsets(pool.active)

LowestFree(used) ==
    CHOOSE n \in 0 .. Cardinality(used) :
        n \notin used /\ \A m \in 0 .. (n - 1) : m \in used

\* the descriptor numbers in use by the bank: those of its live onsets
\* that have not been closed under it
OpenFds == {o.wav.file.fd : o \in LiveOnsets} \ foreign.closed

\* File::open: a new descriptor (the lowest free slot) on a new open file
\* description, positioned at byte 0 of the file
FileOpen ==
    [fd  |-> LowestFree(OpenFds),
     ofd |-> LowestFree({o.wav.file.ofd : o \in LiveOnsets}),
     pos |-> 0]

\* File::try_clone: a new descriptor on the same open file description; the
\* position belongs to the description and is shared
try_clone(file) ==
    [file EXCEPT !.fd = LowestFree(OpenFds)]

\* pan = index / PAD_COUNT - 0.5, in units of 1 / (2 * PAD_COUNT)
generate_pan(index) == 2 * index - PAD_COUNT

\* Pads::onset: open the file of the pad's onset, no seek
onset(kit, index, alt, pan) ==
    LET src == kit[index].onsets[alt + 1].v
    IN  [index |-> index,
         pan   |-> pan,
         wav   |-> [tempo |-> src.wav.tempo, steps |-> src.wav.steps,
                    file |-> FileOpen, len |-> src.wav.len],
         start |-> src.start]

\* Pads::onset_seek: open and seek to the onset's start byte
onset_seek(kit, index, alt, pan) ==
    LET o == onset(kit, index, alt, pan)
    IN  [o EXCEPT !.wav = seek(o.wav, o.start)]

\* rand::random_bool(p), p in percent
random_bool(p) == {b \in BOOLEAN : (b => p > 0) /\ (~b => p < 100)}

\* Pads::generate_alt: the alts that may be drawn, None when the pad has none
generate_alt(kit, index, b) ==
    LET a == kit[index].onsets
    IN  IF a[1] = None /\ a[2] = None THEN {None}
        ELSE IF a[2] = None THEN {Some(0)}
        ELSE IF a[1] = None THEN {Some(1)}
        ELSE {Some(IF r THEN 1 ELSE 0) : r \in random_bool(b)}

(* ---------------------------------------------------------------------- *)
(* ActiveEvent transitions                                                 *)
(* ---------------------------------------------------------------------- *)
\* a recast that opens the file anew instead of cloning the handle
recast_reopen(o) == [o EXCEPT !.wav.file = FileOpen]
\* "recast event variant with same Onset": the onset is moved out of the old
\* variant and its file replaced by a clone of itself
recast(o) == [o EXCEPT !.wav.file = try_clone(@)]

\* a Hold that always draws and opens a new onset
trans_hold_redraw(self, index, b, kit) ==
    {IF alt = None THEN self
     ELSE Hold(onset_seek(kit, index, alt.v, generate_pan(index)))
       : alt \in generate_alt(kit, index, b)}
\* Event::trans with input Hold { index }
trans_hold(self, index, b, kit) ==
    IF self.tag = "Loop"
    THEN {Hold(recast(self.onset))}
    ELSE {IF alt = None THEN self
          ELSE Hold(onset_seek(kit, index, alt.v, generate_pan(index)))
            : alt \in generate_alt(kit, index, b)}

\* a Loop that always draws and opens a new onset
trans_loop_redraw(self, index, len, b, kit) ==
    {IF alt = None THEN self
     ELSE Loop(onset(kit, index, alt.v, generate_pan(index)), len)
       : alt \in generate_alt(kit, index, b)}
\* Event::trans with input Loop { index, len }
trans_loop(self, index, len, b, kit) ==
    IF self.tag \in {"Hold", "Loop"} /\ self.onset.index = index
    THEN {Loop(recast(self.onset), len)}
    ELSE {IF alt = None THEN self
          ELSE Loop(onset(kit, index, alt.v, generate_pan(index)), len)
            : alt \in generate_alt(kit, index, b)}

\* a transition that ignores a Sync input
trans_sync_ignored(self, ev, b, kit) ==
    CASE ev.tag = "Sync" -> {self}
      [] ev.tag = "Hold" -> trans_hold(self, ev.index, b, kit)
      [] ev.tag = "Loop" -> trans_loop(self, ev.index, ev.len, b, kit)
\* Event::trans: the events the transition may leave in self
trans(self, ev, b, kit) ==
    CASE ev.tag = "Sync" -> {Sync}
      [] ev.tag = "Hold" -> trans_hold(self, ev.index, b, kit)
      [] ev.tag = "Loop" -> trans_loop(self, ev.index, ev.len, b, kit)

\* whether trans takes the recast path, where the moved-out payload is
\* dropped a second time when the new variant is assigned
recasts(self, ev) ==
    \/ ev.tag = "Hold" /\ self.tag = "Loop"
    \/ ev.tag = "Loop" /\ self.tag \in {"Hold", "Loop"}
                       /\ self.onset.index = ev.index

\* what the second drop of the old payload closes: the descriptor number
\* the clone replaced, which is already closed (EBADF) unless another
\* thread, opening a file at that moment, was handed that number in
\* between (a stray close)
StaleDrops(self, ev) ==
    IF recasts(self, ev)
    THEN IF foreign.opening THEN {"ebadf", "stray"} ELSE {"ebadf"}
    ELSE {"none"}

\* whether e holds a descriptor that has been closed under it
closed_fd(e) == e.tag # "Sync" /\ e.onset.wav.file.fd \in foreign.closed

\* File::try_clone on a closed descriptor fails
clone_fails(self, ev) == recasts(self, ev) /\ closed_fd(self)

\* whether the transition drops or recasts the onset self holds
replaces(self, ev, b, kit) ==
    \/ ev.tag = "Sync"
    \/ recasts(self, ev)
    \/ generate_alt(kit, ev.index, b) # {None}

\* the other threads after a transition of self with second-drop outcome
\* st: a stray close releases the number that the racing open of another
\* thread was just given, so that thread's File keeps a number it does
\* not own; the descriptor self held is gone with its onset
after_trans(self, ev, st, b, kit) ==
    [foreign EXCEPT
       !.opening = IF st = "stray" THEN FALSE ELSE @,
       !.file = IF st = "stray" THEN Some(self.onset.wav.file.fd) ELSE @,
       !.closed = IF self.tag # "Sync" /\ replaces(self, ev, b, kit)
                  THEN @ \ {self.onset.wav.file.fd} ELSE @]

(* ---------------------------------------------------------------------- *)
(* Stored phrases (super::Phrase)                                          *)
(* ---------------------------------------------------------------------- *)
Max(a, b) == IF a >= b THEN a ELSE b
Min(a, b) == IF a <= b THEN a ELSE b

\* the drift offsets that may be drawn for n candidates, drift d in percent:
\* uniform in [0, round(d * n) - 1], the upper end clamped to 0
drift_offsets(d, n) == 0 .. Max(0, ((d * n + 50) \div 100) - 1)

\* Phrase::generate_stamped: choose the stamped event at index (plus drift),
\* transition the active event by it; yields the event's remaining steps.
\* None for a phrase without events.
generate_stamped(phrase, index, active, b, d, kit) ==
    IF phrase.events = <<>> THEN {[active |-> active, rem |-> None]}
    ELSE LET n == Len(phrase.events)
         IN  UNION {
               LET i      == ((index + off) % n) + 1
                   chosen == phrase.events[i]
                   rem    == IF i < n THEN phrase.events[i + 1].step - chosen.step
                                      ELSE phrase.len - chosen.step
               IN  {[active |-> a, rem |-> Some(rem)]
                      : a \in trans(active, chosen.event, b, kit)}
               : off \in drift_offsets(d, n)}

(* ---------------------------------------------------------------------- *)
(* Recorder (active::Record)                                               *)
(* ---------------------------------------------------------------------- *)
\* f32 as u16 saturates
AsU16(x) == IF x >= U16 THEN U16 - 1 ELSE IF x < 0 THEN 0 ELSE x

ActivePhrase(next, event_rem, phrase_rem, active) ==
    [next |-> next, event_rem |-> event_rem, phrase_rem |-> phrase_rem,
     active |-> active]

RecordNew == [events |-> <<>>, buffer |-> <<>>, phrase |-> None, active |-> None]

\* events.retain(|v| step - v.step < MAX_PHRASE_LEN): the u16 subtraction
\* underflows for an entry stamped after step
retain_underflows(events, step) ==
    \E i \in DOMAIN events : step < events[i].step
\* a window that is one step too long
keeps_one_more(v, step) == ((step - v.step) % U16) <= MAX_PHRASE_LEN
keeps(v, step) == ((step - v.step) % U16) < MAX_PHRASE_LEN
retain(events, step) == SelectSeq(events, LAMBDA v : keeps(v, step))

\* Record::push
push(rec, event, step) ==
    [rec EXCEPT !.events = Append(retain(@, step), Stamped(event, step))]

\* Record::bake: the baked step is v.step - step, a u16 subtraction
bake_underflows(events, step) ==
    \/ retain_underflows(events, step)
    \/ \E i \in DOMAIN events : events[i].step < step
bake_step(v, step) == (v.step - step) % U16
bake(rec, step) ==
    LET kept == retain(rec.events, step)
    IN  [rec EXCEPT !.events = kept,
                    !.buffer = [i \in DOMAIN kept |->
                                  Stamped(kept[i].event, bake_step(kept[i], step))]]

\* skip_while(|v| MAX_PHRASE_LEN - v.step > len): the position of the first
\* baked entry that is kept (Len + 1 when all are skipped)
skips(v, len) == ((MAX_PHRASE_LEN - v.step) % U16) > len
first_kept(buf, len) ==
    CHOOSE i \in 1 .. (Len(buf) + 1) :
        /\ \A j \in 1 .. (i - 1) : skips(buf[j], len)
        /\ (i <= Len(buf) => ~skips(buf[i], len))
trim_events(buf, len) == SubSeq(buf, first_kept(buf, len), Len(buf))
trim_underflows(buf, len) ==
    \E j \in 1 .. Min(first_kept(buf, len), Len(buf)) :
        buf[j].step > MAX_PHRASE_LEN

\* whether the trimmed events start on the first step
on_first_step(events) == events # <<>> /\ events[1].step = 0

\* Record::trim unwraps self.phrase when the trimmed events start on the
\* first step
trim_unwraps_none(rec, len) ==
    on_first_step(trim_events(rec.buffer, len)) /\ rec.phrase = None

\* Record::trim: the recorders it may leave (the trimmed phrase is a local
\* of trim and is not stored)
trim(rec, len, b, d, kit) ==
    LET events == trim_events(rec.buffer, len)
    IN  IF on_first_step(events)
        THEN LET cur == IF rec.active = None THEN Sync ELSE rec.active.v.active
             IN  {IF g.rem = None
                    THEN rec
                    ELSE [rec EXCEPT !.active =
                            Some(ActivePhrase(1, g.rem.v, len, g.active))]
                    : g \in generate_stamped(rec.phrase.v, 0, cur, b, d, kit)}
        ELSE LET event_rem == IF events = <<>> THEN len ELSE events[1].step
                 cur == IF rec.active = None THEN Sync ELSE rec.active.v.active
             IN  {[rec EXCEPT !.active =
                     Some(ActivePhrase(0, event_rem, len, cur))]}

\* Record::take: the recorder left behind and the pair returned
take(rec) ==
    LET cleared == [rec EXCEPT !.buffer = <<>>]
    IN  IF rec.phrase = None
        THEN [rec |-> cleared, ret |-> None]
        ELSE IF rec.active = None
        THEN [rec |-> [cleared EXCEPT !.phrase = None], ret |-> None]
        ELSE [rec |-> [cleared EXCEPT !.phrase = None, !.active = None],
              ret |-> Some([phrase |-> rec.phrase.v, active |-> rec.active.v])]

(* ---------------------------------------------------------------------- *)
(* Pool (active::Pool)                                                     *)
(* ---------------------------------------------------------------------- *)
PoolNew == [next |-> 0, phrases |-> <<>>, index |-> None, active |-> None]

SatSub1(x) == IF x = 0 THEN 0 ELSE x - 1

\* Pool::generate_phrase indexes self.phrases at next + drift % len
generate_phrase_out_of_bounds(pl, d) ==
    /\ pl.phrases # <<>>
    /\ \E off \in drift_offsets(d, Len(pl.phrases)) :
          pl.next + (off % Len(pl.phrases)) >= Len(pl.phrases)

\* Pool::generate_phrase: the pools it may leave and the pad it returns
generate_phrase(pl, b, d, kit) ==
    IF pl.phrases = <<>> THEN {[pool |-> pl, ret |-> None]}
    ELSE UNION {
      LET at  == pl.next + (off % Len(pl.phrases))
          pad == pl.phrases[at + 1]
          cur == IF pl.active = None THEN Sync ELSE pl.active.v.active
      IN  IF kit[pad].phrase = None THEN {[pool |-> pl, ret |-> Some(pad)]}
          ELSE LET phrase == kit[pad].phrase.v
               IN  IF on_first_step(phrase.events)
                   THEN {[pool |-> IF g.rem = None THEN pl
                                   ELSE [pl EXCEPT !.active = Some(ActivePhrase(
                                            1, g.rem.v, phrase.len, g.active))],
                          ret |-> Some(pad)]
                           : g \in generate_stamped(phrase, 0, cur, b, d, kit)}
                   ELSE LET event_rem ==
                              IF pad + 2 <= Len(phrase.events)
                              THEN phrase.events[pad + 2].step
                              ELSE phrase.len
                        IN  {[pool |-> [pl EXCEPT !.active = Some(ActivePhrase(
                                           0, event_rem, phrase.len, cur))],
                              ret |-> Some(pad)]}
      : off \in {o \in drift_offsets(d, Len(pl.phrases)) :
                   pl.next + (o % Len(pl.phrases)) < Len(pl.phrases)}}

\* PadsHandler::tick_pool: the pools it may leave
tick_pool(pl, b, d, kit) ==
    IF pl.active = None THEN {pl}
    ELSE LET a    == pl.active.v
             dec  == [a EXCEPT !.event_rem = SatSub1(@), !.phrase_rem = SatSub1(@)]
             pl1  == [pl EXCEPT !.active = Some(dec)]
         IN  IF dec.phrase_rem = 0
             THEN {[g.pool EXCEPT !.index = g.ret, !.next = @ + 1]
                     : g \in generate_phrase(pl1, b, d, kit)}
             ELSE IF dec.event_rem = 0
                       /\ pl1.index # None /\ kit[pl1.index.v].phrase # None
             THEN {IF g.rem = None
                     THEN [pl1 EXCEPT !.active = Some([dec EXCEPT !.active = g.active])]
                     ELSE [pl1 EXCEPT !.active = Some([dec EXCEPT
                              !.active = g.active, !.next = @ + 1,
                              !.event_rem = g.rem.v])]
                     : g \in generate_stamped(kit[pl1.index.v].phrase.v, dec.next,
                                              dec.active, b, d, kit)}
             ELSE {pl1}

tick_pool_panics(pl, d) ==
    /\ pl.active # None
    /\ SatSub1(pl.active.v.phrase_rem) = 0
    /\ generate_phrase_out_of_bounds(pl, d)

(* ---------------------------------------------------------------------- *)
(* Grain reads                                                             *)
(* ---------------------------------------------------------------------- *)
\* the stream position after file.read has filled k bytes starting at p,
\* with "n == 0 => seek(0)" at the end of the file
read_bytes(wav, k) ==
    LET size  == WAV_HEADER + wav.len
        avail == size - wav.file.pos
    IN  IF k <= avail
        THEN [wav EXCEPT !.file.pos = @ + k]
        ELSE [wav EXCEPT !.file.pos = WAV_HEADER + ((k - avail - 1) % wav.len) + 1]

\* speed_eff * GRAIN_LEN * 2, cut to an even number of bytes
grain_bytes(wav, t, sp) ==
    Even(IF wav.tempo = None
         THEN GRAIN_LEN * 2 * sp
         ELSE (GRAIN_LEN * 2 * t * STEP_DIV * sp) \div wav.tempo.v)

\* PadsHandler::read_grain: read the grain and one extra word, then step
\* the cursor back over the extra word
read_grain(o, t, sp) ==
    LET wav1 == read_bytes(o.wav, grain_bytes(o.wav, t, sp) + 2)
    IN  [o EXCEPT !.wav = seek(wav1, pos(wav1) - 2)]

\* the end of a loop window: start + len * wav.len / wav.steps
loop_end(o, len) ==
    o.start + ((len.numerator * o.wav.len) \div (len.denominator * o.wav.steps))

\* handle_read on a Loop: back to the start when the cursor left the window
loop_rewind(o, len) ==
    LET p == pos(o.wav)
        end == loop_end(o, len)
    IN  IF p < 0 \/ end < p \/ (p < o.start /\ end < p + o.wav.len)
        THEN [o EXCEPT !.wav = seek(o.wav, o.start)]
        ELSE o

\* a selection that overlooks a looping input
read_source_hold_only(inp, rec, pl) ==
    IF inp.active.tag = "Hold" THEN "input"
    ELSE IF rec.active # None /\ rec.active.v.active.tag # "Sync" THEN "record"
    ELSE IF pl.active # None /\ pl.active.v.active.tag # "Sync" THEN "pool"
    ELSE "none"
\* the ActiveEvent handle_read selects: "input", "record", "pool" or "none"
read_source(inp, rec, pl) ==
    IF inp.active.tag # "Sync" THEN "input"
    ELSE IF rec.active # None /\ rec.active.v.active.tag # "Sync" THEN "record"
    ELSE IF pl.active # None /\ pl.active.v.active.tag # "Sync" THEN "pool"
    ELSE "none"

\* the event a grain is read from
source_event(src) ==
    CASE src = "input" -> input.active
      [] src = "record" -> record.active.v.active
      [] src = "pool" -> pool.active.v.active
      [] OTHER -> Sync

\* the event after the grain has been read from it
read_event(e, t, sp) ==
    CASE e.tag = "Hold" -> Hold(read_grain(e.onset, t, sp))
      [] e.tag = "Loop" -> Loop(read_grain(loop_rewind(e.onset, e.len), t, sp), e.len)
      [] OTHER -> e

(* ---------------------------------------------------------------------- *)
(* Clock resync                                                            *)
(* ---------------------------------------------------------------------- *)
\* the event PadsHandler::clock resyncs: the input's, or the pool's when
\* the input is Sync
resync_target(inp, pl) ==
    IF inp.active.tag # "Sync" THEN "input"
    ELSE IF pl.active # None THEN "pool" ELSE "none"

\* "sync with clock": seek a Hold to the byte of the clock step, a Loop to
\* the byte of the clock step modulo the loop length
resync(e, c) ==
    IF e.tag = "Sync" \/ e.onset.wav.tempo = None THEN e
    ELSE LET o == e.onset
             w == o.wav
         IN  IF e.tag = "Hold"
             THEN Hold([o EXCEPT !.wav =
                     seek(w, o.start + Even((w.len * c) \div w.steps))])
             ELSE Loop([o EXCEPT !.wav =
                     seek(w, o.start + Even(
                       (w.len * ((e.len.denominator * c) % e.len.numerator))
                         \div (w.steps * e.len.denominator)))], e.len)

(* ---------------------------------------------------------------------- *)
(* State                                                                   *)
(* ---------------------------------------------------------------------- *)
\* the tag and pad of an ActiveEvent
Summary(e) ==
    IF e.tag = "Sync" THEN [tag |-> "Sync"]
    ELSE [tag |-> e.tag, index |-> e.onset.index]

\* what the last step was: the command, the event it carried, the tag and
\* pad of the input's ActiveEvent before it, the source of a grain read and
\* whether the grain was silent, and what the second drop of a recast
\* closed; pending is the first PushEvent buffered since the last Clock
\* drained counts the commands the current callback has taken from a
\* channel that held them, up to MaxPending
LastWith(cmd, pend) ==
    [cmd |-> cmd, event |-> None, prev |-> None, src |-> "none",
     silent |-> TRUE, stale |-> "none", pending |-> pend,
     drained |-> IF cmd = "new" THEN 0
                 ELSE LET base == IF last.cmd = "Read" THEN 0 ELSE last.drained
                      IN  IF cmd # "Read" /\ cmd_rx # <<>>
                          THEN Min(base + 1, MaxPending) ELSE base]
Last(cmd) == LastWith(cmd, last.pending)

\* enum BankState of the control side
BankLoadOnset == [tag |-> "LoadOnset"]
BankLoadKit == [tag |-> "LoadKit"]
BankAssignKit == [tag |-> "AssignKit"]
BankBakeRecord == [tag |-> "BakeRecord"]
BankBuildPool(cleared) == [tag |-> "BuildPool", cleared |-> cleared]
\* BankHandler::new
BankHandlerNew ==
    [hold |-> FALSE, reverse |-> FALSE, downs |-> <<>>, state |-> BankLoadOnset]
\* InputHandler::new: the pulse counter at 0, no step timed yet, the
\* global state Yield and a fresh bank; pulses counts the TimingClock
\* messages since startup or the last Stop, sent and tui hold what the
\* last message made the handler send, held the keys that are down
InputHandlerNew ==
    [clock |-> 0, last_step |-> FALSE, pulses |-> 0, sent |-> <<>>,
     tui |-> <<>>, state |-> "Yield", bank_b |-> BankHandlerNew,
     held |-> {}]
\* TuiHandler::default with its receiver: nothing pending on the channel,
\* the bank in LoadOnset with no pad down and an empty pool
TuiHandlerNew ==
    [rx |-> <<>>,
     bank_b |-> [downs |-> <<>>, pool |-> <<>>, state |-> [tag |-> "LoadOnset"]]]

\* the files of the other threads and the descriptors closed under the
\* bank: no other thread is opening a file, none holds a descriptor
\* number that the bank released, no descriptor of the bank is closed
ForeignNew == [opening |-> FALSE, file |-> None, closed |-> {}]

\* main before its threads are spawned: the command channel is open and
\* empty, the ring buffer of two grains holds one grain of silence, the
\* pads thread is about to poll the channel and the output stream plays
RunNew ==
    [tx |-> TRUE, pending |-> 0, fill |-> RunGrain, left |-> 0,
     pads |-> "recv", stream |-> TRUE, main |-> "tui"]

Init ==
    /\ quant = FALSE
    /\ clock = 0
    /\ tempo = 0
    /\ bias = 0
    /\ drift = 0
    /\ speed = [base |-> 1, offset |-> 1]
    /\ width = 100
    /\ pads = [i \in 0 .. (PAD_COUNT - 1) |-> DefaultPad]
    /\ input = [active |-> Sync, buffer |-> None]
    /\ record = RecordNew
    /\ pool = PoolNew
    /\ overflow_checks \in BOOLEAN
    /\ panicked = FALSE
    /\ last = LastWith("new", None)
    /\ cmd_rx = <<>>
    /\ run = RunNew
    /\ foreign = ForeignNew
    /\ handler = InputHandlerNew
    /\ tui_handler = TuiHandlerNew

\* a panic unwinds out of the callback: nothing of the bank is used again
Panic ==
    /\ panicked' = TRUE
    /\ last' = Last("panic")
    /\ UNCHANGED <<quant, clock, tempo, bias, drift, speed, width, pads,
                   input, record, pool, overflow_checks>>

\* a panic inside the handler of command cmd with argument ev
PanicIn(cmd, ev) ==
    /\ panicked' = TRUE
    /\ last' = [Last("panic") EXCEPT !.prev = Some([cmd |-> cmd, event |-> ev])]
    /\ UNCHANGED <<quant, clock, tempo, bias, drift, speed, width, pads,
                   input, record, pool, overflow_checks>>

(* ---------------------------------------------------------------------- *)
(* Commands                                                                *)
(* ---------------------------------------------------------------------- *)
\* PadsHandler::process_input at clock value c: transition the input's
\* ActiveEvent, then push the event to the recorder.  The outcomes are the
\* ActiveEvent and the recorder it may leave.
process_input_panics(c) ==
    overflow_checks /\ retain_underflows(record.events, AsU16(c))
\* a realization that forgets the recorder
process_input_no_push(ev, c) ==
    {[active |-> a, record |-> record, stale |-> st]
       : a \in trans(input.active, ev, bias, pads),
         st \in StaleDrops(input.active, ev)}
process_input(ev, c) ==
    {[active |-> a, record |-> push(record, ev, AsU16(c)), stale |-> st]
       : a \in trans(input.active, ev, bias, pads),
         st \in StaleDrops(input.active, ev)}

\* the ghost of a step that realized ev
Realized(cmd, ev, st) ==
    [Last(cmd) EXCEPT !.event = Some(ev),
                      !.prev = Some(Summary(input.active)), !.stale = st]

\* a command as it travels on the channel
Msg(cmd, arg) == [cmd |-> cmd, arg |-> arg]

\* a receive that takes the newest pending command
recv_newest(c) ==
    IF cmd_rx = <<>>
    THEN cmd_rx' = cmd_rx
    ELSE /\ cmd_rx[Len(cmd_rx)] = c
         /\ cmd_rx' = SubSeq(cmd_rx, 1, Len(cmd_rx) - 1)
\* self.cmd_rx.try_recv() yields c: the oldest pending command; with
\* nothing pending, c is sent and received in this step
recv(c) ==
    IF cmd_rx = <<>>
    THEN cmd_rx' = cmd_rx
    ELSE /\ Head(cmd_rx) = c
         /\ cmd_rx' = Tail(cmd_rx)

Start ==
    /\ ~panicked
    /\ recv(Msg("Start", None))
    /\ UNCHANGED <<run, foreign, handler, tui_handler>>
    /\ quant' = TRUE
    /\ clock' = 0
    /\ last' = Last("Start")
    /\ UNCHANGED <<tempo, bias, drift, speed, width, pads, input, record,
                   pool, overflow_checks, panicked>>

\* PadsHandler::clock, on a bank none of whose descriptors is closed
Clock ==
    /\ ~panicked
    /\ recv(Msg("Clock", None))
    /\ UNCHANGED <<run, handler, tui_handler>>
    /\ clock < MaxClock
    /\ input.buffer # None => Len(record.events) < MaxRing
    /\ foreign.closed = {}
    /\ IF input.buffer # None
       THEN IF process_input_panics(clock + 1) \/ tick_pool_panics(pool, drift)
            THEN PanicIn("Clock", None) /\ UNCHANGED foreign
            ELSE /\ quant' = TRUE
                 /\ clock' = clock + 1
                 /\ \E r \in process_input(input.buffer.v, clock + 1) :
                      /\ input' = [active |-> r.active, buffer |-> None]
                      /\ record' = r.record
                      /\ last' = [Realized("Clock", input.buffer.v, r.stale)
                                    EXCEPT !.pending = None]
                      /\ foreign' = after_trans(input.active, input.buffer.v,
                                                r.stale, bias, pads)
                 /\ pool' \in tick_pool(pool, bias, drift, pads)
                 /\ UNCHANGED <<tempo, bias, drift, speed, width, pads,
                                overflow_checks, panicked>>
       ELSE IF tick_pool_panics(pool, drift)
            THEN PanicIn("Clock", None) /\ UNCHANGED foreign
            ELSE /\ quant' = TRUE
                 /\ clock' = clock + 1
                 /\ LET tgt == resync_target(input, pool)
                        pl1 == IF tgt = "pool"
                               THEN [pool EXCEPT !.active.v.active = resync(@, clock + 1)]
                               ELSE pool
                    IN  /\ input' = IF tgt = "input"
                                    THEN [input EXCEPT !.active = resync(@, clock + 1)]
                                    ELSE input
                        /\ pool' \in tick_pool(pl1, bias, drift, pads)
                 /\ last' = LastWith("Clock", None)
                 /\ UNCHANGED <<tempo, bias, drift, speed, width, pads, record,
                                overflow_checks, panicked, foreign>>

Stop ==
    /\ ~panicked
    /\ recv(Msg("Stop", None))
    /\ UNCHANGED <<run, foreign, handler, tui_handler>>
    /\ quant' = FALSE
    /\ clock' = 0
    /\ last' = Last("Stop")
    /\ UNCHANGED <<tempo, bias, drift, speed, width, pads, input, record,
                   pool, overflow_checks, panicked>>

AssignTempo(v) ==
    /\ ~panicked
    /\ recv(Msg("AssignTempo", Some(v)))
    /\ UNCHANGED <<run, foreign, handler, tui_handler>>
    /\ tempo' = v
    /\ last' = Last("AssignTempo")
    /\ UNCHANGED <<quant, clock, bias, drift, speed, width, pads, input,
                   record, pool, overflow_checks, panicked>>

AssignBias(v) ==
    /\ ~panicked
    /\ recv(Msg("AssignBias", Some(v)))
    /\ UNCHANGED <<run, foreign, handler, tui_handler>>
    /\ bias' = v
    /\ last' = Last("AssignBias")
    /\ UNCHANGED <<quant, clock, tempo, drift, speed, width, pads, input,
                   record, pool, overflow_checks, panicked>>

AssignDrift(v) ==
    /\ ~panicked
    /\ recv(Msg("AssignDrift", Some(v)))
    /\ UNCHANGED <<run, foreign, handler, tui_handler>>
    /\ drift' = v
    /\ last' = Last("AssignDrift")
    /\ UNCHANGED <<quant, clock, tempo, bias, speed, width, pads, input,
                   record, pool, overflow_checks, panicked>>

AssignSpeed(v) ==
    /\ ~panicked
    /\ recv(Msg("AssignSpeed", Some(v)))
    /\ UNCHANGED <<run, foreign, handler, tui_handler>>
    /\ speed' = [speed EXCEPT !.base = v]
    /\ last' = Last("AssignSpeed")
    /\ UNCHANGED <<quant, clock, tempo, bias, drift, width, pads, input,
                   record, pool, overflow_checks, panicked>>

OffsetSpeed(v) ==
    /\ ~panicked
    /\ recv(Msg("OffsetSpeed", Some(v)))
    /\ UNCHANGED <<run, foreign, handler, tui_handler>>
    /\ speed' = [speed EXCEPT !.offset = v]
    /\ last' = Last("OffsetSpeed")
    /\ UNCHANGED <<quant, clock, tempo, bias, drift, width, pads, input,
                   record, pool, overflow_checks, panicked>>

AssignWidth(v) ==
    /\ ~panicked
    /\ recv(Msg("AssignWidth", Some(v)))
    /\ UNCHANGED <<run, foreign, handler, tui_handler>>
    /\ width' = v
    /\ last' = Last("AssignWidth")
    /\ UNCHANGED <<quant, clock, tempo, bias, drift, speed, pads, input,
                   record, pool, overflow_checks, panicked>>

\* PadsHandler::assign_onset: store the onset, then transition the input's
\* ActiveEvent by Hold { index } over the updated kit
AssignOnset(index, alt, on) ==
    /\ ~panicked
    /\ recv(Msg("AssignOnset", Some(<<index, alt, on>>)))
    /\ UNCHANGED <<run, handler, tui_handler>>
    /\ ~clone_fails(input.active, EvHold(index))
    /\ LET kit == [pads EXCEPT ![index].onsets[alt + 1] = Some(on)]
       IN  /\ pads' = kit
           /\ \E a \in trans(input.active, EvHold(index), bias, kit),
                 st \in StaleDrops(input.active, EvHold(index)) :
                /\ input' = [input EXCEPT !.active = a]
                /\ last' = Realized("AssignOnset", EvHold(index), st)
                /\ foreign' = after_trans(input.active, EvHold(index), st,
                                          bias, kit)
    /\ UNCHANGED <<quant, clock, tempo, bias, drift, speed, width, record,
                   pool, overflow_checks, panicked>>

\* PadsHandler::input
Input(ev) ==
    /\ ~panicked
    /\ recv(Msg("Input", Some(ev)))
    /\ UNCHANGED <<run, handler, tui_handler>>
    /\ ~quant => Len(record.events) < MaxRing
    /\ ~quant => ~clone_fails(input.active, ev)
    /\ IF quant
       THEN /\ input' = [input EXCEPT !.buffer = Some(ev)]
            /\ UNCHANGED foreign
            /\ last' = [Last("Input") EXCEPT
                          !.event = Some(ev),
                          !.pending = IF @ = None THEN Some(ev) ELSE @]
            /\ UNCHANGED <<quant, clock, tempo, bias, drift, speed, width,
                           pads, record, pool, overflow_checks, panicked>>
       ELSE IF process_input_panics(clock)
            THEN Panic /\ UNCHANGED foreign
            ELSE /\ \E r \in process_input(ev, clock) :
                      /\ input' = [input EXCEPT !.active = r.active]
                      /\ record' = r.record
                      /\ last' = Realized("Input", ev, r.stale)
                      /\ foreign' = after_trans(input.active, ev, r.stale,
                                                bias, pads)
                 /\ UNCHANGED <<quant, clock, tempo, bias, drift, speed,
                                width, pads, pool, overflow_checks, panicked>>

\* PadsHandler::bake_record
bake_record_panics(len) ==
    LET rec1 == IF record.active = None
                THEN bake(record, AsU16(clock)) ELSE record
    IN  \/ /\ overflow_checks
           /\ record.active = None
           /\ bake_underflows(record.events, AsU16(clock))
        \/ overflow_checks /\ trim_underflows(rec1.buffer, len)
        \/ trim_unwraps_none(rec1, len)

BakeRecord(len) ==
    /\ ~panicked
    /\ recv(Msg("BakeRecord", Some(len)))
    /\ UNCHANGED <<run, foreign, handler, tui_handler>>
    /\ IF bake_record_panics(len)
       THEN PanicIn("BakeRecord", Some(len))
       ELSE /\ LET rec1 == IF record.active = None
                           THEN bake(record, AsU16(clock)) ELSE record
               IN  record' \in trim(rec1, len, bias, drift, pads)
            /\ last' = [Last("BakeRecord") EXCEPT !.event = Some(len)]
            /\ UNCHANGED <<quant, clock, tempo, bias, drift, speed, width,
                           pads, input, pool, overflow_checks, panicked>>

\* PadsHandler::take_record, index an Option
TakeRecord(index) ==
    /\ ~panicked
    /\ recv(Msg("TakeRecord", index))
    /\ UNCHANGED <<run, foreign, handler, tui_handler>>
    /\ LET t == take(record)
       IN  /\ record' = t.rec
           /\ IF t.ret = None
              THEN UNCHANGED <<pads, pool>>
              ELSE /\ pads' = IF index = None THEN pads
                              ELSE [pads EXCEPT ![index.v].phrase = Some(t.ret.v.phrase)]
                   /\ pool' = [pool EXCEPT !.index = index,
                                           !.active = Some(t.ret.v.active)]
    /\ last' = [Last("TakeRecord") EXCEPT
                  !.event = index,
                  !.prev = Some([cmd |-> last.cmd, event |-> last.event])]
    /\ UNCHANGED <<quant, clock, tempo, bias, drift, speed, width, input,
                   overflow_checks, panicked>>

PushPool(index) ==
    /\ ~panicked
    /\ recv(Msg("PushPool", Some(index)))
    /\ UNCHANGED <<run, foreign, handler, tui_handler>>
    /\ Len(pool.phrases) < MaxPool
    /\ pool' = [pool EXCEPT !.phrases = Append(@, index)]
    /\ last' = Last("PushPool")
    /\ UNCHANGED <<quant, clock, tempo, bias, drift, speed, width, pads,
                   input, record, overflow_checks, panicked>>

ClearPool ==
    /\ ~panicked
    /\ recv(Msg("ClearPool", None))
    /\ UNCHANGED <<run, foreign, handler, tui_handler>>
    /\ pool' = [pool EXCEPT !.phrases = <<>>]
    /\ last' = Last("ClearPool")
    /\ UNCHANGED <<quant, clock, tempo, bias, drift, speed, width, pads,
                   input, record, overflow_checks, panicked>>

\* the u64 subtraction of Wav::pos underflows during the read: at the
\* window check of a Loop, or after the grain has been read
read_underflows(e, t, sp) ==
    \/ e.tag = "Loop" /\ pos_underflows(e.onset.wav)
    \/ LET o == IF e.tag = "Loop" THEN loop_rewind(e.onset, e.len) ELSE e.onset
       IN  pos_underflows(read_bytes(o.wav, grain_bytes(o.wav, t, sp) + 2))

\* a handle_read that reads a grain whatever the tempo
reads_grain_any_tempo(t, e) == e.tag # "Sync"
\* handle_read reads a grain from a Hold or a Loop when the tempo is
\* positive; otherwise it fills the buffer with T::EQUILIBRIUM
reads_grain(t, e) == t > 0 /\ e.tag # "Sync"

\* the grain would be read through a descriptor that is closed
reads_closed ==
    LET e == source_event(read_source(input, record, pool))
    IN  reads_grain(tempo, e) /\ closed_fd(e)

\* PadsHandler::handle_read, the grain read that ends a callback
HandleRead ==
    /\ ~panicked
    /\ cmd_rx = <<>>
    /\ ~reads_closed
    /\ UNCHANGED <<cmd_rx, run, foreign, handler, tui_handler>>
    /\ LET src == read_source(input, record, pool)
           e   == source_event(src)
           sp  == speed.base * speed.offset
       IN  IF reads_grain(tempo, e)
           THEN IF overflow_checks /\ read_underflows(e, tempo, sp)
                THEN Panic
                ELSE LET e1 == read_event(e, tempo, sp)
                     IN  /\ input' = IF src = "input"
                                     THEN [input EXCEPT !.active = e1] ELSE input
                         /\ record' = IF src = "record"
                                      THEN [record EXCEPT !.active.v.active = e1]
                                      ELSE record
                         /\ pool' = IF src = "pool"
                                    THEN [pool EXCEPT !.active.v.active = e1]
                                    ELSE pool
                         /\ last' = [Last("Read") EXCEPT !.src = src,
                                                         !.silent = FALSE]
                         /\ UNCHANGED <<quant, clock, tempo, bias, drift, speed,
                                        width, pads, overflow_checks, panicked>>
           ELSE /\ last' = [Last("Read") EXCEPT !.src = src]
                /\ UNCHANGED <<quant, clock, tempo, bias, drift, speed, width,
                               pads, input, record, pool, overflow_checks,
                               panicked>>

\* a file operation fails inside command cmd or inside the grain read: the
\* `?` returns the error from tick at once, before handle_read has
\* written the buffer
TickErr(cmd, ev) ==
    /\ last' = [Last("Err") EXCEPT !.silent = FALSE,
                                   !.prev = Some([cmd |-> cmd, event |-> ev])]
    /\ UNCHANGED <<quant, clock, tempo, bias, drift, speed, width, pads,
                   input, record, pool, overflow_checks, panicked, run,
                   foreign, handler, tui_handler>>

\* Cmd::Input realized at once, where Pads::onset_seek fails to open or
\* to seek the file of the pad: neither the transition nor the recorder
\* push takes place
InputErr(ev) ==
    /\ ~panicked
    /\ recv(Msg("Input", Some(ev)))
    /\ ~quant
    /\ ev.tag = "Hold"
    /\ input.active.tag # "Loop"
    /\ generate_alt(pads, ev.index, bias) # {None}
    /\ TickErr("Input", Some(ev))

\* handle_read where the read, the seek or the stream position of the
\* grain's file fails
ReadErr ==
    /\ ~panicked
    /\ cmd_rx = <<>>
    /\ reads_grain(tempo, source_event(read_source(input, record, pool)))
    /\ UNCHANGED cmd_rx
    /\ TickErr("Read", None)


\* handle_read through a descriptor that is closed: the read fails
ReadClosed ==
    /\ ~panicked
    /\ cmd_rx = <<>>
    /\ reads_closed
    /\ UNCHANGED cmd_rx
    /\ TickErr("Read", None)

\* another thread (the MIDI callback reading a scene or listing a
\* directory) is about to open a file
ForeignOpen ==
    /\ ~foreign.opening
    /\ foreign.file = None
    /\ foreign' = [foreign EXCEPT !.opening = TRUE]
    /\ UNCHANGED <<engine, run, handler, tui_handler>>

\* the other thread is done with its file and closes the number it holds;
\* a number released by a stray close may by now be the descriptor of a
\* live onset of the bank, which is closed under it
ForeignClose ==
    /\ foreign.opening \/ foreign.file # None
    /\ foreign' = [opening |-> FALSE, file |-> None,
                   closed |-> foreign.closed \cup
                                IF foreign.file = None THEN {}
                                ELSE {foreign.file.v} \cap OpenFds]
    /\ UNCHANGED <<engine, run, handler, tui_handler>>

(* ---------------------------------------------------------------------- *)
(* Specification                                                           *)
(* ---------------------------------------------------------------------- *)
\* the full command set of PadsHandler::tick
Next ==
    \/ Start
    \/ Clock
    \/ Stop
    \/ \E v \in TempoValues : AssignTempo(v)
    \/ \E v \in BiasValues : AssignBias(v)
    \/ \E v \in DriftValues : AssignDrift(v)
    \/ \E v \in SpeedValues : AssignSpeed(v)
    \/ \E v \in SpeedValues : OffsetSpeed(v)
    \/ \E v \in WidthValues : AssignWidth(v)
    \/ \E i \in UsedPads, alt \in Alts : AssignOnset(i, alt, KitOnset(alt))
    \/ \E ev \in InputEvents : Input(ev)
    \/ \E len \in BakeLens : BakeRecord(len)
    \/ \E i \in {None} \cup {Some(p) : p \in UsedPads} : TakeRecord(i)
    \/ \E i \in UsedPads : PushPool(i)
    \/ ClearPool
    \/ HandleRead

Spec == Init /\ [][Next]_vars

\* free-running play: pads are assigned and played with no MIDI clock, so
\* every PushEvent is realized at once
FreeEvents ==
    {EvSync, EvHold(0), EvHold(1)} \cup {EvLoop(0, l) : l \in LoopLens}
FreeSlots == {<<0, 0>>, <<0, 1>>, <<1, 0>>}
NextFree ==
    \/ \E v \in TempoValues : AssignTempo(v)
    \/ \E sl \in FreeSlots : AssignOnset(sl[1], sl[2], KitOnset(sl[2]))
    \/ \E ev \in FreeEvents : Input(ev)
    \/ HandleRead

SpecFree == Init /\ [][NextFree]_vars

\* clocked play of one pad: PushEvents are quantized to the Clock
ClockedEvents == {EvSync, EvHold(0), EvLoop(0, Fraction(4, LOOP_DIV))}
NextClocked ==
    \/ Clock
    \/ \E v \in TempoValues : AssignTempo(v)
    \/ AssignOnset(0, 0, KitOnset(0))
    \/ \E ev \in ClockedEvents : Input(ev)
    \/ HandleRead

SpecClocked == Init /\ [][NextClocked]_vars

\* a recording session: events are played, baked and taken
TakeEvents == {EvSync, EvHold(0)}
NextTake ==
    \/ Clock
    \/ \E ev \in TakeEvents : Input(ev)
    \/ \E len \in BakeLens : BakeRecord(len)
    \/ \E i \in {None} \cup {Some(p) : p \in UsedPads} : TakeRecord(i)

SpecTake == Init /\ [][NextTake]_vars

\* the recorder alone: Record::push called with non-decreasing steps, the
\* step kept in clock
StepJumps == {0, 1, MAX_PHRASE_LEN - 1, MAX_PHRASE_LEN}
RecordPush(ev, d) ==
    /\ clock + d <= MaxStep
    /\ UNCHANGED <<cmd_rx, run, foreign, handler, tui_handler>>
    /\ Len(retain(record.events, AsU16(clock + d))) < MaxRing
    /\ clock' = clock + d
    /\ record' = push(record, ev, AsU16(clock + d))
    /\ last' = [Last("push") EXCEPT !.event = Some(ev)]
    /\ UNCHANGED <<quant, tempo, bias, drift, speed, width, pads, input, pool,
                   overflow_checks, panicked>>

NextRecord == \E ev \in TakeEvents, d \in StepJumps : RecordPush(ev, d)

SpecRecord == Init /\ [][NextRecord]_vars

\* The pool and the take alone.  No command sequence stores a phrase in the
\* recorder (Record::trim keeps it in a local), so the pool never gets an
\* ActivePhrase from Init.  Here the handler starts as the callers of
\* Record::take and Pool::generate_phrase expect it: pads may hold a phrase,
\* and the recorder may hold a trimmed phrase with the ActivePhrase seated
\* on it.
KitPhrases ==
    {[events |-> <<Stamped(EvSync, 0)>>, len |-> 1],
     [events |-> <<Stamped(EvSync, 0), Stamped(EvHold(0), 1)>>, len |-> 2],
     [events |-> <<Stamped(EvSync, 1), Stamped(EvHold(0), 2)>>, len |-> 4]}
\* the ActivePhrase of a recorder whose trimmed phrase is phrase: the first
\* event consumed if it is at step 0, else a Sync placeholder up to it
Seated(phrase) ==
    IF on_first_step(phrase.events)
    THEN ActivePhrase(1,
                      IF Len(phrase.events) > 1
                      THEN phrase.events[2].step ELSE phrase.len,
                      phrase.len, Sync)
    ELSE ActivePhrase(0,
                      IF phrase.events = <<>>
                      THEN phrase.len ELSE phrase.events[1].step,
                      phrase.len, Sync)
InitPhrases ==
    /\ quant = FALSE
    /\ clock = 0
    /\ tempo = 0
    /\ bias = 0
    /\ drift = 0
    /\ speed = [base |-> 1, offset |-> 1]
    /\ width = 100
    /\ \E kit \in [UsedPads -> {None} \cup {Some(ph) : ph \in KitPhrases}] :
          pads = [i \in 0 .. (PAD_COUNT - 1) |->
                    IF i \in UsedPads
                    THEN [DefaultPad EXCEPT !.phrase = kit[i]]
                    ELSE DefaultPad]
    /\ input = [active |-> Sync, buffer |-> None]
    /\ \E ph \in KitPhrases :
          record = [RecordNew EXCEPT !.phrase = Some(ph),
                                     !.active = Some(Seated(ph))]
    /\ pool = PoolNew
    /\ overflow_checks \in BOOLEAN
    /\ panicked = FALSE
    /\ last = LastWith("new", None)
    /\ cmd_rx = <<>>
    /\ run = RunNew
    /\ foreign = ForeignNew
    /\ handler = InputHandlerNew
    /\ tui_handler = TuiHandlerNew
NextPool ==
    \/ Clock
    \/ \E i \in {None} \cup {Some(p) : p \in UsedPads} : TakeRecord(i)
    \/ \E i \in UsedPads : PushPool(i)
    \/ ClearPool
SpecPool == InitPhrases /\ [][NextPool]_vars

\* recording against the transport: events are pushed and baked while the
\* clock runs and is stopped
NextBake ==
    \/ Clock
    \/ Stop
    \/ \E ev \in TakeEvents : Input(ev)
    \/ \E len \in BakeLens : BakeRecord(len)
SpecBake == Init /\ [][NextBake]_vars

\* The pool playing under the input.  As in InitPhrases the recorder holds
\* a trimmed phrase with its ActivePhrase seated; pad 0 has an onset, so
\* the events of the phrase open files, and a pool or recorder event can
\* be live while the input plays.
ShadowPhrases ==
    {[events |-> <<Stamped(EvSync, 0), Stamped(EvHold(0), 1)>>, len |-> 2]}
InitShadow ==
    /\ quant = FALSE
    /\ clock = 0
    /\ tempo = 0
    /\ bias = 0
    /\ drift = 0
    /\ speed = [base |-> 1, offset |-> 1]
    /\ width = 100
    /\ pads = [i \in 0 .. (PAD_COUNT - 1) |->
                 IF i = 0
                 THEN [DefaultPad EXCEPT !.onsets[1] = Some(KitOnset(0))]
                 ELSE DefaultPad]
    /\ input = [active |-> Sync, buffer |-> None]
    /\ \E ph \in ShadowPhrases :
          record = [RecordNew EXCEPT !.phrase = Some(ph),
                                     !.active = Some(Seated(ph))]
    /\ pool = PoolNew
    /\ overflow_checks \in BOOLEAN
    /\ panicked = FALSE
    /\ last = LastWith("new", None)
    /\ cmd_rx = <<>>
    /\ run = RunNew
    /\ foreign = ForeignNew
    /\ handler = InputHandlerNew
    /\ tui_handler = TuiHandlerNew
NextShadow ==
    \/ Clock
    \/ \E v \in TempoValues : AssignTempo(v)
    \/ \E ev \in ClockedEvents : Input(ev)
    \/ TakeRecord(Some(0))
    \/ HandleRead
SpecShadow == InitShadow /\ [][NextShadow]_vars

\* the pool under a clock that keeps running: Stop takes the step count
\* back to 0, so Clock commands can arrive for ever; a Clock that is
\* pending is taken by the next callback.  The pool's cursor, which only
\* grows, is kept below MaxClock.
NextPoolFair ==
    \/ pool.next < MaxClock /\ Clock
    \/ Stop
    \/ TakeRecord(None)
    \/ \E i \in UsedPads : PushPool(i)
    \/ ClearPool
SpecPoolFair == InitPhrases /\ [][NextPoolFair]_vars /\ WF_vars(Clock)

\* Wav::seek alone: the input holds an onset on a PCM body of an even or an
\* odd length, and the cursor is sought to offsets of both signs
SeekLens == {24, 7}
SeekOnset(len) ==
    [wav |-> [tempo |-> Some(480), steps |-> 4, len |-> len], start |-> 0]
SeekOffsets == (0 - MaxSeek) .. MaxSeek
WavSeek(k) ==
    /\ ~panicked
    /\ UNCHANGED <<cmd_rx, run, foreign, handler, tui_handler>>
    /\ input.active.tag # "Sync"
    /\ input' = [input EXCEPT !.active.onset.wav = seek(@, k)]
    /\ last' = [Last("seek") EXCEPT !.event = Some(k)]
    /\ UNCHANGED <<quant, clock, tempo, bias, drift, speed, width, pads,
                   record, pool, overflow_checks, panicked>>
NextSeek ==
    \/ \E len \in SeekLens : AssignOnset(0, 0, SeekOnset(len))
    \/ \E k \in SeekOffsets : WavSeek(k)
SpecSeek == Init /\ [][NextSeek]_vars

\* The callback and the command channel: the control thread sends while
\* the callback drains the channel one try_recv at a time and reads its
\* grain once try_recv finds the channel empty.
TickCmds ==
    {Msg("Start", None), Msg("Stop", None)}
        \cup {Msg("AssignBias", Some(v)) : v \in BiasValues}
\* pads_tx.send(cmd) on the control thread
Send(c) ==
    /\ Len(cmd_rx) < MaxPending
    /\ cmd_rx' = Append(cmd_rx, c)
    /\ UNCHANGED <<run, foreign, handler, tui_handler>>
    /\ UNCHANGED <<quant, clock, tempo, bias, drift, speed, width, pads,
                   input, record, pool, overflow_checks, panicked, last>>
NextTick ==
    \/ \E c \in TickCmds : Send(c)
    \/ Start
    \/ Stop
    \/ \E v \in BiasValues : AssignBias(v)
    \/ HandleRead
SpecTick == Init /\ [][NextTick]_vars

\* The transport: MIDI Start, Stop and Clock around played events.
NextTransport ==
    \/ Start
    \/ Clock
    \/ Stop
    \/ \E ev \in TakeEvents : Input(ev)
SpecTransport == Init /\ [][NextTransport]_vars

\* Callbacks whose file operations may fail.
NextFail ==
    \/ \E v \in TempoValues : AssignTempo(v)
    \/ AssignOnset(0, 0, KitOnset(0))
    \/ \E ev \in TakeEvents : Input(ev)
    \/ \E ev \in TakeEvents : InputErr(ev)
    \/ HandleRead
    \/ ReadErr
SpecFail == Init /\ [][NextFail]_vars

\* The bank's descriptors while another thread opens and closes files.
NextFds ==
    \/ \E v \in TempoValues : AssignTempo(v)
    \/ AssignOnset(0, 0, KitOnset(0))
    \/ \E ev \in ClockedEvents : Input(ev)
    \/ HandleRead
    \/ ReadClosed
    \/ ForeignOpen
    \/ ForeignClose
SpecFds == Init /\ [][NextFds]_vars

(* ---------------------------------------------------------------------- *)
(* The input handler                                                       *)
(* ---------------------------------------------------------------------- *)
\* a pulse counter that never wraps
next_pulse_no_wrap(c) == c + 1
\* self.clock = (self.clock + 1) % (audio::PPQ / audio::STEP_DIV)
next_pulse(c) == (c + 1) % (PPQ \div STEP_DIV)

\* InputHandler::push of a TimingClock: on pulse 0 of a step the tempo
\* measured since the last step, if there is one, and a Clock are sent to
\* the engine and a Clock to the TUI
TimingClock(v) ==
    /\ handler.pulses < MaxPulse
    /\ LET out == IF handler.clock # 0 THEN <<>>
                  ELSE IF handler.last_step
                       THEN <<Msg("AssignTempo", Some(v)), Msg("Clock", None)>>
                       ELSE <<Msg("Clock", None)>>
       IN  /\ Len(cmd_rx) + Len(out) <= MaxPending
           /\ cmd_rx' = cmd_rx \o out
           /\ handler' = [handler EXCEPT
                            !.clock = next_pulse(handler.clock),
                            !.last_step = handler.last_step \/ handler.clock = 0,
                            !.pulses = handler.pulses + 1,
                            !.sent = out,
                            !.tui = IF handler.clock = 0 THEN <<"Clock">>
                                    ELSE <<>>]
    /\ UNCHANGED <<quant, clock, tempo, bias, drift, speed, width, pads,
                   input, record, pool, overflow_checks, panicked, last,
                   run, foreign, tui_handler>>

\* InputHandler::push of a MIDI Stop
MidiStop ==
    /\ Len(cmd_rx) < MaxPending
    /\ cmd_rx' = Append(cmd_rx, Msg("Stop", None))
    /\ handler' = [handler EXCEPT !.clock = 0, !.last_step = FALSE,
                                   !.pulses = 0,
                                   !.sent = <<Msg("Stop", None)>>,
                                   !.tui = <<"Stop">>]
    /\ UNCHANGED <<quant, clock, tempo, bias, drift, speed, width, pads,
                   input, record, pool, overflow_checks, panicked, last,
                   run, foreign, tui_handler>>

\* the handler sends while the engine takes the commands off the channel
NextPulse ==
    \/ \E v \in TempoValues : TimingClock(v)
    \/ MidiStop
    \/ Clock
    \/ Stop
    \/ \E v \in TempoValues : AssignTempo(v)
SpecPulse == Init /\ [][NextPulse]_vars

(* ---------------------------------------------------------------------- *)
(* The keys of a bank                                                      *)
(* ---------------------------------------------------------------------- *)
\* enum KeyCode: the shift key and the keys of bank B
Global == 48
RecordB == 61
KitB == 62
PoolB == 63
ReverseB == 64
BankBOffset == 65
\* the pads of the bank that are played
PadKeys == {BankBOffset + i : i \in UsedPads}
\* the keys of the chords of the bank, with the shift key
ChordKeys == {Global, RecordB, KitB, PoolB, ReverseB}
\* the keys of the kit and pool chords, with the pads
Keys == {KitB, PoolB} \cup PadKeys

\* what a method of BankHandler leaves: the bank, the commands sent on
\* pads_tx and the commands sent on tui_tx, in the order of the sends
Sends(bank, pads_out, tui_out) ==
    [bank |-> bank, pads |-> pads_out, tui |-> tui_out]

\* self.downs.downs_first().copied()
downs_first(downs) == IF downs = <<>> THEN None ELSE Some(downs[1])
\* self.downs.retain(|&v| v != index)
retain_downs(downs, index) == SelectSeq(downs, LAMBDA v : v # index)

RECURSIVE or_bits(_)
\* fold(0u8, |acc, v| acc | (1 << v)) over a set of shifts
or_bits(S) ==
    IF S = {} THEN 0
    ELSE LET v == CHOOSE x \in S : TRUE IN 2^v + or_bits(S \ {v})
\* the chord of the pads held after the first: the distance of each from
\* the first, counted upwards around the bank, as a bit
chord_bits(downs) ==
    LET index == downs[1]
        dist(v) == IF v >= index + 1 THEN v - (index + 1)
                   ELSE v + PAD_COUNT - 1 - index
    IN  or_bits({dist(downs[k]) : k \in 2 .. Len(downs)})
\* the phrase length of handle_pad_up and handle_pad_down in BakeRecord
chord_len(downs) ==
    IF Len(downs) > 1 THEN chord_bits(downs) ELSE MAX_PHRASE_LEN

\* BankHandler::handle_pad_input
handle_pad_input(b) ==
    LET ev == IF b.downs = <<>> THEN EvSync
              ELSE IF Len(b.downs) > 1
                   THEN EvLoop(b.downs[1],
                               Fraction(chord_bits(b.downs), LOOP_DIV))
                   ELSE EvHold(b.downs[1])
    IN  Sends(b, <<Msg("Input", Some(ev))>>, <<>>)

\* BankHandler::handle_record_up
handle_record_up(b) ==
    Sends([b EXCEPT !.state = BankLoadOnset],
          <<Msg("TakeRecord", downs_first(b.downs))>>,
          <<Msg("LoadOnset", None)>>)

\* BankHandler::handle_record_down
handle_record_down(b) ==
    IF b.state.tag = "LoadKit"
    THEN Sends([b EXCEPT !.state = BankAssignKit], <<>>,
               <<Msg("AssignKit", None)>>)
    ELSE Sends([b EXCEPT !.state = BankBakeRecord, !.hold = FALSE],
               (IF b.downs = <<>> THEN <<Msg("Input", Some(EvSync))>>
                ELSE <<>>) \o <<Msg("BakeRecord", Some(MAX_PHRASE_LEN))>>,
               <<Msg("BakeRecord", <<None, MAX_PHRASE_LEN>>)>>)

\* BankHandler::handle_kit_up
handle_kit_up(b) ==
    Sends([b EXCEPT !.state = BankLoadOnset], <<>>,
          <<Msg("LoadOnset", None)>>)

\* BankHandler::handle_kit_down
handle_kit_down(b) ==
    Sends([b EXCEPT !.state = BankLoadKit], <<>>, <<Msg("LoadKit", None)>>)

\* BankHandler::handle_pool_up
handle_pool_up(b) ==
    LET clear == b.state.tag = "BuildPool" /\ ~b.state.cleared
    IN  Sends([b EXCEPT !.state = BankLoadOnset],
              IF clear THEN <<Msg("ClearPool", None)>> ELSE <<>>,
              (IF clear THEN <<Msg("ClearPool", None)>> ELSE <<>>)
                  \o <<Msg("LoadOnset", None)>>)

\* BankHandler::handle_pool_down
handle_pool_down(b) ==
    IF b.reverse
    THEN Sends([b EXCEPT !.hold = ~b.hold],
               IF b.hold /\ b.downs = <<>>
               THEN <<Msg("Input", Some(EvSync))>> ELSE <<>>,
               <<>>)
    ELSE Sends([b EXCEPT !.state = BankBuildPool(FALSE)], <<>>,
               <<Msg("BuildPool", None)>>)

\* BankHandler::handle_reverse_up
handle_reverse_up(b) == Sends([b EXCEPT !.reverse = FALSE], <<>>, <<>>)
\* BankHandler::handle_reverse_down
handle_reverse_down(b) == Sends([b EXCEPT !.reverse = TRUE], <<>>, <<>>)

\* BankHandler::handle_pad_up
handle_pad_up(b) ==
    CASE b.state.tag = "LoadOnset" ->
           IF ~b.hold THEN handle_pad_input(b) ELSE Sends(b, <<>>, <<>>)
      [] b.state.tag = "BakeRecord" ->
           Sends(b, <<Msg("BakeRecord", Some(chord_len(b.downs)))>>,
                 <<Msg("BakeRecord", <<downs_first(b.downs), chord_len(b.downs)>>)>>)
      [] OTHER -> Sends(b, <<>>, <<>>)

\* BankHandler::handle_pad_down: the kit and pool commands carry
\* self.downs[0], the pad that has been held longest
handle_pad_down(b) ==
    CASE b.state.tag = "LoadOnset" -> handle_pad_input(b)
      [] b.state.tag = "LoadKit" ->
           Sends(b, <<Msg("LoadKit", Some(b.downs[1]))>>,
                 <<Msg("LoadKit", Some(b.downs[1]))>>)
      [] b.state.tag = "AssignKit" ->
           Sends(b, <<Msg("AssignKit", Some(b.downs[1]))>>,
                 <<Msg("AssignKit", Some(b.downs[1]))>>)
      [] b.state.tag = "BakeRecord" ->
           Sends(b, <<Msg("BakeRecord", Some(chord_len(b.downs)))>>,
                 <<Msg("BakeRecord", <<downs_first(b.downs), chord_len(b.downs)>>)>>)
      [] b.state.tag = "BuildPool" ->
           IF ~b.state.cleared
           THEN Sends([b EXCEPT !.state = BankBuildPool(TRUE)],
                      <<Msg("ClearPool", None),
                        Msg("PushPool", Some(b.downs[1]))>>,
                      <<Msg("ClearPool", None)>>)
           ELSE Sends(b, <<Msg("PushPool", Some(b.downs[1]))>>, <<>>)

\* the arm of InputHandler::push for a NoteOff of key: the global state
\* it leaves with what the bank's method leaves.  Outside Yield a chord
\* key of the bank is ignored and a pad only leaves downs
note_off(key) ==
    LET b == handler.bank_b
        yield == handler.state = "Yield"
        idle == Sends(b, <<>>, <<>>)
    IN  CASE key = Global ->
               [state |-> "Yield", out |-> Sends(b, <<>>, <<Msg("Yield", None)>>)]
          [] key = RecordB ->
               [state |-> handler.state,
                out |-> IF yield THEN handle_record_up(b) ELSE idle]
          [] key = KitB ->
               [state |-> handler.state,
                out |-> IF yield THEN handle_kit_up(b) ELSE idle]
          [] key = PoolB ->
               [state |-> handler.state,
                out |-> IF yield THEN handle_pool_up(b) ELSE idle]
          [] key = ReverseB ->
               [state |-> handler.state,
                out |-> IF yield THEN handle_reverse_up(b) ELSE idle]
          [] key \in PadKeys ->
               LET index == key - BankBOffset
                   b1 == [b EXCEPT !.downs = retain_downs(@, index)]
                   up == IF yield THEN handle_pad_up(b1) ELSE Sends(b1, <<>>, <<>>)
               IN  [state |-> handler.state,
                    out |-> [up EXCEPT
                               !.tui = <<Msg("Pad", <<index, FALSE>>)>> \o @]]

\* the arm of InputHandler::push for a NoteOn of key
note_on(key) ==
    LET b == handler.bank_b
        yield == handler.state = "Yield"
        idle == Sends(b, <<>>, <<>>)
    IN  CASE key = Global -> [state |-> "Prime", out |-> idle]
          [] key = RecordB ->
               [state |-> handler.state,
                out |-> IF yield THEN handle_record_down(b) ELSE idle]
          [] key = KitB ->
               [state |-> handler.state,
                out |-> IF yield THEN handle_kit_down(b) ELSE idle]
          [] key = PoolB ->
               [state |-> handler.state,
                out |-> IF yield THEN handle_pool_down(b) ELSE idle]
          [] key = ReverseB ->
               [state |-> handler.state,
                out |-> IF yield THEN handle_reverse_down(b) ELSE idle]
          [] key \in PadKeys ->
               LET index == key - BankBOffset
                   b1 == [b EXCEPT !.downs = Append(@, index)]
                   down == IF yield THEN handle_pad_down(b1)
                           ELSE Sends(b1, <<>>, <<>>)
               IN  [state |-> handler.state,
                    out |-> [down EXCEPT
                               !.tui = <<Msg("Pad", <<index, TRUE>>)>> \o @]]

\* InputHandler::push has handled a message: the handler as r leaves it,
\* its commands appended to the two channels
Pushed_by(r, held) ==
    /\ Len(cmd_rx) + Len(r.out.pads) <= MaxPending
    /\ Len(tui_handler.rx) + Len(r.out.tui) <= MaxTui
    /\ cmd_rx' = cmd_rx \o r.out.pads
    /\ tui_handler' = [tui_handler EXCEPT !.rx = @ \o r.out.tui]
    /\ handler' = [handler EXCEPT
                     !.state = r.state,
                     !.bank_b = r.out.bank,
                     !.sent = r.out.pads,
                     !.tui = [i \in DOMAIN r.out.tui |-> r.out.tui[i].cmd],
                     !.held = held]
    /\ UNCHANGED <<quant, clock, tempo, bias, drift, speed, width, pads,
                   input, record, pool, overflow_checks, panicked, last,
                   run, foreign>>

\* InputHandler::push of the NoteOn of a key that is up
NoteOn(key) ==
    /\ key \notin handler.held
    /\ Pushed_by(note_on(key), handler.held \cup {key})

\* InputHandler::push of the NoteOff of a key that is down
NoteOff(key) ==
    /\ key \in handler.held
    /\ Pushed_by(note_off(key), handler.held \ {key})

\* BankHandler::pad of the TUI
tui_pad(b, index, down) ==
    IF down
    THEN [b EXCEPT !.downs = Append(@, index),
                   !.pool = IF b.state.tag = "BuildPool"
                            THEN Append(@, index) ELSE @]
    ELSE [b EXCEPT !.downs = retain_downs(@, index)]

\* TuiHandler::cmd for Yield and for the commands of the bank
\* (BankHandler::cmd)
tui_cmd(b, c) ==
    CASE c.cmd = "Yield" -> [b EXCEPT !.state = [tag |-> "LoadOnset"]]
      [] c.cmd = "Pad" -> tui_pad(b, c.arg[1], c.arg[2])
      [] c.cmd = "LoadOnset" -> [b EXCEPT !.state = [tag |-> "LoadOnset"]]
      [] c.cmd = "AssignKit" ->
           [b EXCEPT !.state = [tag |-> "AssignKit", index |-> c.arg]]
      [] c.cmd = "LoadKit" ->
           [b EXCEPT !.state = [tag |-> "LoadKit", index |-> c.arg]]
      [] c.cmd = "BakeRecord" ->
           [b EXCEPT !.state = [tag |-> "BakeRecord", index |-> c.arg[1],
                                len |-> c.arg[2]]]
      [] c.cmd = "BuildPool" -> [b EXCEPT !.state = [tag |-> "BuildPool"]]
      [] c.cmd = "ClearPool" -> [b EXCEPT !.pool = <<>>]

\* one turn of TuiHandler::run that finds a command: input_rx.try_recv()
\* and self.cmd(cmd)
TuiCmd ==
    /\ tui_handler.rx # <<>>
    /\ LET c == Head(tui_handler.rx)
           b == tui_handler.bank_b
       IN  /\ (c.cmd = "Pad" /\ c.arg[2] /\ b.state.tag = "BuildPool")
                 => Len(b.pool) < MaxPool
           /\ tui_handler' = [rx |-> Tail(tui_handler.rx),
                              bank_b |-> tui_cmd(b, c)]
    /\ UNCHANGED <<engine, run, foreign, handler>>

\* Cmd::LoadKit and Cmd::AssignKit taken off the channel by the engine:
\* the scene of kits they copy from and to is outside this model
KitCmd(cmd, index) ==
    /\ ~panicked
    /\ cmd_rx # <<>>
    /\ Head(cmd_rx) = Msg(cmd, Some(index))
    /\ cmd_rx' = Tail(cmd_rx)
    /\ last' = Last(cmd)
    /\ UNCHANGED <<quant, clock, tempo, bias, drift, speed, width, pads,
                   input, record, pool, overflow_checks, panicked,
                   run, foreign, handler, tui_handler>>

\* both receivers have taken everything that was sent
Drained == cmd_rx = <<>> /\ tui_handler.rx = <<>>

\* The kit and pool chords of bank B are played by hand, without the
\* shift key: the engine and the TUI, which poll their channels without
\* pause, have taken the commands of one key, each the oldest first and
\* in either order, before the next key moves.
NextKeys ==
    \/ Drained /\ \E k \in Keys : NoteOn(k)
    \/ Drained /\ \E k \in Keys : NoteOff(k)
    \/ TuiCmd
    \/ cmd_rx # <<>> /\ Head(cmd_rx).cmd = "Input"
          /\ Len(record.events) < MaxKeyEvents
          /\ Input(Head(cmd_rx).arg.v)
    \/ cmd_rx # <<>> /\ \E i \in UsedPads : PushPool(i)
    \/ cmd_rx # <<>> /\ ClearPool
    \/ \E i \in UsedPads : KitCmd("LoadKit", i)
SpecKeys == Init /\ [][NextKeys]_vars

\* The chord keys of bank B and the shift key are played by hand, and no
\* pad is.  The keys of bank A, which open the file browser while the
\* shift key is held, are not played.
NextChords ==
    \/ Drained /\ \E k \in ChordKeys : NoteOn(k)
    \/ Drained /\ \E k \in ChordKeys : NoteOff(k)
    \/ TuiCmd
    \/ cmd_rx # <<>> /\ Head(cmd_rx).cmd = "Input"
          /\ Len(record.events) < MaxKeyEvents
          /\ Input(Head(cmd_rx).arg.v)
    \/ cmd_rx # <<>> /\ Head(cmd_rx).cmd = "BakeRecord"
          /\ BakeRecord(Head(cmd_rx).arg.v)
    \/ cmd_rx # <<>> /\ Head(cmd_rx).cmd = "TakeRecord"
          /\ TakeRecord(Head(cmd_rx).arg)
    \/ cmd_rx # <<>> /\ ClearPool
SpecChords == Init /\ [][NextChords]_vars

(* ---------------------------------------------------------------------- *)
(* The pads thread, the output stream and main                             *)
(* ---------------------------------------------------------------------- *)
\* HeapRb::new(GRAIN_LEN * 2)
RingCap == 2 * RunGrain

\* the MIDI callback sends a command while it holds the sender
RunSend ==
    /\ run.tx
    /\ run.pending < MaxPending
    /\ run' = [run EXCEPT !.pending = @ + 1]
    /\ UNCHANGED <<engine, foreign, handler, tui_handler>>

\* Pads::run, top of the loop: one try_recv.  Disconnected (no sender and
\* nothing pending) returns; a command or Empty is followed by tick, which
\* pushes a grain
RunRecv ==
    /\ run.pads = "recv"
    /\ run' = IF run.pending > 0
              THEN [run EXCEPT !.pending = @ - 1, !.pads = "push",
                               !.left = RunGrain]
              ELSE IF ~run.tx
              THEN [run EXCEPT !.pads = "done"]
              ELSE [run EXCEPT !.pads = "push", !.left = RunGrain]
    /\ UNCHANGED <<engine, foreign, handler, tui_handler>>

\* while producer.try_push(frame).is_err() {}: the push succeeds once the
\* ring buffer has room
try_push(r) == r.fill < RingCap

\* Pads::read_grain / handle_active_input: one frame of the grain
RunPush ==
    /\ run.pads = "push"
    /\ try_push(run)
    /\ run' = [run EXCEPT !.fill = Min(@ + 1, RingCap),
                          !.left = @ - 1,
                          !.pads = IF run.left = 1 THEN "recv" ELSE "push"]
    /\ UNCHANGED <<engine, foreign, handler, tui_handler>>

\* out_fn of play: the stream's callback pops a frame
OutFn ==
    /\ run.stream
    /\ run.fill > 0
    /\ run' = [run EXCEPT !.fill = @ - 1]
    /\ UNCHANGED <<engine, foreign, handler, tui_handler>>

\* main after the TUI has returned: drop(midi_in) drops the sender
DropSender ==
    /\ run.main = "tui"
    /\ run' = [run EXCEPT !.tx = FALSE, !.main = "dropped"]
    /\ UNCHANGED <<engine, foreign, handler, tui_handler>>

\* main unparks the audio thread and joins it: play returns and the
\* stream with its consumer is dropped
JoinAudio ==
    /\ run.main = "dropped"
    /\ run' = [run EXCEPT !.stream = FALSE, !.main = "joined"]
    /\ UNCHANGED <<engine, foreign, handler, tui_handler>>

\* pads_handle.join() returns once Pads::run has returned
JoinPads ==
    /\ run.main = "joined"
    /\ run.pads = "done"
    /\ run' = [run EXCEPT !.main = "exit"]
    /\ UNCHANGED <<engine, foreign, handler, tui_handler>>

NextRun ==
    \/ RunSend
    \/ RunRecv
    \/ RunPush
    \/ OutFn
    \/ DropSender
    \/ JoinAudio
    \/ JoinPads
SpecRun == Init /\ [][NextRun]_vars
\* every thread that can run does run
SpecRunFair ==
    /\ Init
    /\ [][NextRun]_vars
    /\ WF_vars(RunRecv)
    /\ WF_vars(RunPush)
    /\ WF_vars(OutFn)
    /\ WF_vars(JoinAudio)
    /\ WF_vars(JoinPads)

RingLast(rec) == rec.events[Len(rec.events)]

C3_StampBeforeIncrement ==
    [][(last'.cmd = "Clock" /\ input.buffer # None) =>
          /\ record'.events # <<>>
          /\ RingLast(record').step = clock
          /\ clock' = clock + 1]_vars

\* the step recorded in l transitioned the input's ActiveEvent by l.event.v
IsTransition(l) ==
    l.cmd \in {"Input", "Clock", "AssignOnset"} /\ l.prev # None

\* o2 is the onset o1 carried over: same pad, pan, start byte and WAV, and
\* the same open file with its position (the descriptor may be a clone)
SameOnset(o1, o2) ==
    /\ o2.index = o1.index
    /\ o2.pan = o1.pan
    /\ o2.start = o1.start
    /\ o2.wav.tempo = o1.wav.tempo
    /\ o2.wav.steps = o1.wav.steps
    /\ o2.wav.len = o1.wav.len
    /\ o2.wav.file.ofd = o1.wav.file.ofd
    /\ o2.wav.file.pos = o1.wav.file.pos

\* C4: a transition with input Loop{p, L'} from Hold(O) or Loop(O, L) with
\* O on pad p yields Loop(O, L'): the same onset with its file position,
\* start byte and pan, only the loop length replaced, whatever the kit
\* holds for pad p.
C4_LoopRecastKeepsOnset ==
    [][(/\ IsTransition(last')
        /\ last'.event.v.tag = "Loop"
        /\ input.active.tag \in {"Hold", "Loop"}
        /\ input.active.onset.index = last'.event.v.index) =>
          /\ input'.active.tag = "Loop"
          /\ input'.active.len = last'.event.v.len
          /\ SameOnset(input.active.onset, input'.active.onset)]_vars

\* a Hold on pad 0 whose cursor had left the start byte was recast to a Loop
C4_Witness ==
    /\ IsTransition(last)
    /\ last.event = Some(EvLoop(0, Fraction(1, LOOP_DIV)))
    /\ last.prev = Some([tag |-> "Hold", index |-> 0])
    /\ input.active.tag = "Loop"
    /\ pos(input.active.onset.wav) # input.active.onset.start

\* C5: a transition with input Hold{p} from Loop(O, L) yields Hold(O) with
\* O's cursor position, start byte and pad index unchanged, for p equal to
\* O's pad and for p different from it.
C5_HoldRecastKeepsOnset ==
    [][(/\ IsTransition(last')
        /\ last'.event.v.tag = "Hold"
        /\ input.active.tag = "Loop") =>
          /\ input'.active.tag = "Hold"
          /\ SameOnset(input.active.onset, input'.active.onset)]_vars

\* a Loop on pad 0 was recast by Hold{1}: the Hold plays pad 0's onset
C5_Witness ==
    /\ IsTransition(last)
    /\ last.event = Some(EvHold(1))
    /\ last.prev = Some([tag |-> "Loop", index |-> 0])
    /\ input.active.tag = "Hold"
    /\ input.active.onset.index = 0
    /\ pads[1].onsets[1] # None

\* C6: when a transition needs a new onset (Hold{p} from Sync or Hold,
\* Loop{p, L} from Sync or from another pad) and pad p has neither alt
\* assigned, the ActiveEvent becomes Sync, whatever it was before.
C6_NoAltBecomesSync ==
    [][(/\ IsTransition(last')
        /\ last'.cmd \in {"Input", "Clock"}
        /\ \/ /\ last'.event.v.tag = "Hold"
              /\ input.active.tag \in {"Sync", "Hold"}
           \/ /\ last'.event.v.tag = "Loop"
              /\ \/ input.active.tag = "Sync"
                 \/ input.active.onset.index # last'.event.v.index
        /\ pads[last'.event.v.index].onsets = <<None, None>>) =>
          input'.active = Sync]_vars

\* C7: a transition with input Sync leaves the ActiveEvent Sync, whatever it
\* was, and a grain read while the input is Sync and neither the recorder
\* nor the pool plays is silent; so it is after AssignOnset(0, ..),
\* PushEvent(Hold{0}), Clock, PushEvent(Loop{0, 4/8}), Clock,
\* PushEvent(Sync), Clock.
C7_SyncSilences ==
    /\ (IsTransition(last) /\ last.event = Some(EvSync)) => input.active = Sync
    /\ (/\ last.cmd = "Read"
        /\ input.active = Sync
        /\ record.active = None
        /\ pool.active = None) => last.silent

\* the scenario has run (the ring holds its three realizations, the third
\* Clock has passed) and a grain was read at a non-zero tempo
C7_Witness ==
    /\ pads[0].onsets[1] # None
    /\ clock = 3
    /\ record.events = <<Stamped(EvHold(0), 0),
                         Stamped(EvLoop(0, Fraction(4, LOOP_DIV)), 2),
                         Stamped(EvSync, 3)>>
    /\ input.active = Sync
    /\ tempo > 0
    /\ last.cmd = "Read"
    /\ last.silent

\* the step leaves a live ActiveOnset in the input whose open file is not
\* the one the input held before
HandleChanged ==
    /\ input'.active.tag # "Sync"
    /\ \/ input.active.tag = "Sync"
       \/ input'.active.onset.wav.file.ofd # input.active.onset.wav.file.ofd

\* C8: the file handle of the input's live ActiveOnset changes identity
\* only in a transition where the input's pad differs from the current
\* onset's pad, or the current ActiveEvent is Sync and the input is not, or
\* the input is a Hold and the current ActiveEvent is a Hold (a re-trigger,
\* the same pad included); in every other step that leaves an ActiveOnset
\* live the handle is the one held before.
C8_HandleChangesOnlyOnNewOnset ==
    [][HandleChanged =>
         /\ IsTransition(last')
         /\ last'.event.v.tag # "Sync"
         /\ \/ input.active.tag = "Sync"
            \/ last'.event.v.index # input.active.onset.index
            \/ last'.event.v.tag = "Hold" /\ input.active.tag = "Hold"]_vars

\* Hold{0} arrived while a Hold on pad 0 was playing past its start byte:
\* the new Hold reads from the start byte again
C8_Witness ==
    /\ IsTransition(last)
    /\ last.cmd = "Input"
    /\ last.event = Some(EvHold(0))
    /\ last.prev = Some([tag |-> "Hold", index |-> 0])
    /\ input.active.tag = "Hold"
    /\ input.active.onset.wav.file.ofd = 1
    /\ pos(input.active.onset.wav) = input.active.onset.start
    /\ tempo > 0

\* C8 as stated: the handle changes identity only when the input's pad
\* differs from the current onset's pad or the current ActiveEvent is Sync
\* and the input is not; Hold{p} on a Hold on pad p keeps the handle.
C8_HandleChangesOnlyOnPadChange ==
    [][HandleChanged =>
         /\ IsTransition(last')
         /\ last'.event.v.tag # "Sync"
         /\ \/ input.active.tag = "Sync"
            \/ last'.event.v.index # input.active.onset.index]_vars

\* C9: after each push(e, s) of a sequence with non-decreasing s, every
\* entry of the ring has a stamp with s - stamp < MAX_PHRASE_LEN, and the
\* entry just pushed is the last one.
C9_RingWindow ==
    last.cmd = "push" =>
      /\ \A i \in DOMAIN record.events :
            /\ record.events[i].step <= clock
            /\ clock - record.events[i].step < MAX_PHRASE_LEN
      /\ record.events # <<>>
      /\ RingLast(record) = Stamped(last.event.v, clock)

\* a push has evicted every older entry: the step is beyond the reach of a
\* first push and the ring holds the pushed entry alone
C9_Witness ==
    /\ last.cmd = "push"
    /\ clock > MAX_PHRASE_LEN
    /\ Len(record.events) = 1

\* the phrase C10 expects from ring events at clock c: the events stamped
\* in [c - len, c), each at its stamp minus (c - len)
Recorded(events, c, len) ==
    LET inside == SelectSeq(events, LAMBDA v : c - len <= v.step /\ v.step < c)
    IN  [events |-> [i \in DOMAIN inside |->
                       Stamped(inside[i].event, inside[i].step - (c - len))],
         len |-> len]

\* C10: after events realized at non-decreasing clock steps, BakeRecord(len)
\* at clock c and then TakeRecord(Some(p)), pad p holds the phrase of length
\* len made of the events stamped in [c - len, c), each at its stamp minus
\* (c - len).
C10_RecordThenTake ==
    (/\ last.cmd = "TakeRecord"
     /\ last.event # None
     /\ last.prev.v.cmd = "BakeRecord"
     /\ \A i \in 1 .. (Len(record.events) - 1) :
           record.events[i].step <= record.events[i + 1].step) =>
       pads[last.event.v].phrase =
         Some(Recorded(record.events, clock, last.prev.v.event.v))

\* the baked buffer C11 expects from ring events at step now: the entries
\* whose rewrite (step + MAX_PHRASE_LEN) - now does not underflow, in ring
\* order, each at its rewritten step
Baked(events, now) ==
    LET inside == SelectSeq(events, LAMBDA v : v.step + MAX_PHRASE_LEN >= now)
    IN  [i \in DOMAIN inside |->
           Stamped(inside[i].event, (inside[i].step + MAX_PHRASE_LEN) - now)]

\* C11: a BakeRecord that bakes (the recorder has no ActivePhrase) sets the
\* baked buffer to the ring's entries in ring order, each with its step
\* rewritten to (step + MAX_PHRASE_LEN) - now, entries whose rewrite would
\* underflow dropped; the entries of the ring keep their stamps.
C11_BakeRewritesSteps ==
    [][(last'.cmd = "BakeRecord" /\ record.active = None) =>
          /\ record'.buffer = Baked(record.events, clock)
          /\ \A i \in DOMAIN record'.events :
                \E j \in DOMAIN record.events :
                  record'.events[i] = record.events[j]]_vars

\* the events C12 expects in the trimmed phrase: the baked entries with
\* step + len >= MAX_PHRASE_LEN, each at step + len - MAX_PHRASE_LEN
Trimmed(buf, len) ==
    LET inside == SelectSeq(buf, LAMBDA v : v.step + len >= MAX_PHRASE_LEN)
    IN  [i \in DOMAIN inside |->
           Stamped(inside[i].event, (inside[i].step + len) - MAX_PHRASE_LEN)]

\* the Phrase invariant: every event step is below len, steps ascend
PhraseInvariant(phrase) ==
    /\ \A i \in DOMAIN phrase.events : phrase.events[i].step < phrase.len
    /\ \A i, j \in DOMAIN phrase.events :
          i < j => phrase.events[i].step <= phrase.events[j].step

\* C12: after a BakeRecord(len) the recorder stores a Phrase of length len
\* that holds exactly the baked entries with step + len >= MAX_PHRASE_LEN,
\* each rewritten to step + len - MAX_PHRASE_LEN, and this phrase satisfies
\* the Phrase invariant.
C12_TrimStoresPhrase ==
    last.cmd = "BakeRecord" =>
        /\ record.phrase =
             Some([events |-> Trimmed(record.buffer, last.event.v),
                   len |-> last.event.v])
        /\ PhraseInvariant(record.phrase.v)

\* C13: every BakeRecord(len) completes and leaves the recorder an
\* ActivePhrase with phrase_rem = len: next = 1 when the trimmed phrase's
\* first event is at step 0, otherwise next = 0 and a Sync placeholder whose
\* event_rem is the first event's step (len for a phrase without events).
C13_BakeSeatsActivePhrase ==
    /\ ~(last.cmd = "panic" /\ last.prev # None
           /\ last.prev.v.cmd = "BakeRecord")
    /\ last.cmd = "BakeRecord" =>
          /\ record.active # None
          /\ LET a      == record.active.v
                 len    == last.event.v
                 events == Trimmed(record.buffer, len)
             IN  /\ a.phrase_rem = len
                 /\ IF on_first_step(events)
                    THEN a.next = 1
                    ELSE /\ a.next = 0
                         /\ a.active = Sync
                         /\ a.event_rem =
                              IF events = <<>> THEN len ELSE events[1].step

Regenerates ==
    /\ ~panicked
    /\ pool.active # None
    /\ SatSub1(pool.active.v.phrase_rem) = 0

\* the step is a Clock command, completed or not
ClockStep ==
    \/ last'.cmd = "Clock"
    \/ last'.cmd = "panic" /\ last'.prev = Some([cmd |-> "Clock", event |-> None])

C17_SeekWraps ==
    last.cmd = "seek" =>
        LET k   == last.event.v
            wav == input.active.onset.wav
            p   == pos(wav)
        IN  /\ 0 <= p /\ p < wav.len
            /\ \E q \in SeekOffsets : k = q * wav.len + p
            /\ (k % 2 = 0 /\ wav.len % 2 = 0) => p % 2 = 0

\* a negative offset has wrapped forward to a position inside the body
C17_Witness ==
    /\ last.cmd = "seek"
    /\ last.event.v < 0
    /\ pos(input.active.onset.wav) > 0
    /\ pos(input.active.onset.wav) =
         last.event.v + 2 * input.active.onset.wav.len

\* C17: after seek(k), for every integer offset k, pos() is k mod len in
\* [0, len) and the position is always even.
C17_SeekAlwaysEven ==
    last.cmd = "seek" =>
        LET k   == last.event.v
            wav == input.active.onset.wav
            p   == pos(wav)
        IN  /\ 0 <= p /\ p < wav.len
            /\ \E q \in SeekOffsets : k = q * wav.len + p
            /\ p % 2 = 0

\* C18: while the input's Loop is the read source, the cursor position
\* after every grain lies inside the loop window, from the onset's start
\* byte to start + len * wav.len / wav.steps.
C18_LoopStaysInWindow ==
    (/\ last.cmd = "Read"
     /\ ~last.silent
     /\ last.src = "input"
     /\ input.active.tag = "Loop") =>
        LET o == input.active.onset
        IN  /\ o.start <= pos(o.wav)
            /\ pos(o.wav) <= loop_end(o, input.active.len)

\* no ActiveEvent of the bank is a Hold or a Loop
AllSyncOrAbsent ==
    /\ input.active.tag = "Sync"
    /\ record.active = None \/ record.active.v.active.tag = "Sync"
    /\ pool.active = None \/ pool.active.v.active.tag = "Sync"

\* C19: a grain read while the tempo is 0, or while the input's, the
\* recorder's and the pool's events are all Sync or absent, fills the whole
\* output buffer with the silent sample, and no other read is silent; so
\* the first read of a freshly constructed handler is silent.
C19_SilentWithoutTempoOrEvent ==
    last.cmd = "Read" =>
        /\ (tempo = 0 \/ AllSyncOrAbsent) => last.silent
        /\ last.silent => (tempo = 0 \/ AllSyncOrAbsent)

\* a read at tempo 0 while the input holds an onset was silent
C19_Witness ==
    /\ last.cmd = "Read"
    /\ tempo = 0
    /\ input.active.tag = "Hold"
    /\ last.silent

InputStep ==
    \/ last'.cmd = "Input"
    \/ last'.cmd = "panic" /\ last'.prev = None

\* C21: the step clock increases by exactly 1 on every Clock command, is
\* changed by no command other than Clock and Stop, and a Stop sets
\* quant = false and clock = 0, so that a PushEvent after Stop is realized
\* immediately (it transitions the input and is recorded) until the next
\* Clock.
C21_ClockOnlyByClockAndStop ==
    [][/\ last'.cmd = "Clock" => clock' = clock + 1
       /\ last'.cmd \notin {"Clock", "Stop", "panic"} => clock' = clock
       /\ last'.cmd = "Stop" => (~quant' /\ clock' = 0)
       /\ (InputStep /\ ~quant) =>
             /\ ~panicked'
             /\ last'.event # None
             /\ Len(record'.events) > 0
             /\ RingLast(record').event = last'.event.v]_vars

\* C22: after the sender of the command channel is dropped, the pads
\* thread terminates (it finishes its grain, observes the disconnect and
\* returns) and the joins in main complete, whatever the interleaving with
\* the output stream being stopped.
C22_PadsThreadTerminates ==
    (~run.tx) ~> (run.pads = "done" /\ run.main = "exit")

\* C23: if a file open, seek or read fails while a command is handled or
\* a grain is read, the callback still delivers silence for that grain:
\* the error never leaves the output buffer unwritten.
C23_ErrorStillSilence ==
    last.cmd = "Err" => last.silent

\* the events of the bank that may hold an onset
Holders ==
    <<input.active,
      IF record.active = None THEN Sync ELSE record.active.v.active,
      IF pool.active = None THEN Sync ELSE pool.active.v.active>>

\* C24: in every reachable state the open ActiveOnsets of the bank
\* (input, recorder ActivePhrase, pool ActivePhrase) own pairwise distinct
\* file descriptors, the bank holds at most 3 open descriptors, and no
\* ActiveOnset reads through a descriptor that was closed by a variant
\* change.
C24_DistinctOpenDescriptors ==
    /\ \A i, j \in 1 .. 3 :
          (i # j /\ Holders[i].tag # "Sync" /\ Holders[j].tag # "Sync") =>
              Holders[i].onset.wav.file.fd # Holders[j].onset.wav.file.fd
    /\ Cardinality(OpenFds) <= 3
    /\ \A i \in 1 .. 3 : ~closed_fd(Holders[i])

\* the step is a TimingClock taken by the input handler
PulseStep == handler'.pulses = handler.pulses + 1

\* C25: for any sequence of MIDI TimingClock and Stop messages the input
\* handler sends a Clock to the engine, and one to the TUI, on exactly the
\* 1st, 7th, 13th, ... TimingClock counted from startup or from the most
\* recent Stop (one Clock per PPQ/STEP_DIV = 6 pulses), and a Stop resets
\* the pulse count.
C25_ClockEverySixthPulse ==
    [][/\ PulseStep =>
            LET first == handler.pulses % 6 = 0
                sends == \E i \in DOMAIN handler'.sent :
                             handler'.sent[i] = Msg("Clock", None)
            IN  /\ sends <=> first
                /\ handler'.tui = (IF first THEN <<"Clock">> ELSE <<>>)
                /\ sends => /\ handler'.sent[Len(handler'.sent)] = Msg("Clock", None)
                            /\ cmd_rx' = cmd_rx \o handler'.sent
                /\ ~sends => cmd_rx' = cmd_rx
       /\ (handler'.sent = <<Msg("Stop", None)>> /\ handler' # handler) =>
            handler'.pulses = 0 /\ handler'.clock = 0]_vars

\* the 13th pulse since startup or the last Stop has sent a Clock
C25_Witness ==
    /\ handler.pulses = 13
    /\ handler.sent # <<>>
    /\ handler.sent[Len(handler.sent)] = Msg("Clock", None)
    /\ handler.tui = <<"Clock">>

\* C26: on a Clock with no buffered input, a Hold over an onset with a
\* known natural tempo is re-seeked to start_byte + len/steps * (clock -
\* start_step), rounded to even, modulo len, where start_step is the clock
\* step at which the event began: a Hold that began on the previous Clock
\* is placed one step after its start byte.
C26_HoldResyncFromStartStep ==
    [][(/\ last.cmd = "Clock"
        /\ last.event # None
        /\ last.event.v.tag = "Hold"
        /\ input.active.tag = "Hold"
        /\ input.active.onset.wav.tempo # None
        /\ input.buffer = None
        /\ last'.cmd = "Clock"
        /\ clock' = clock + 1) =>
          LET o == input.active.onset
          IN  pos(input'.active.onset.wav) =
                (o.start + Even(o.wav.len \div o.wav.steps)) % o.wav.len]_vars

\* a Clock leaves ActivePhrase a as b, one step on: both counters one
\* lower where neither reaches 0
SteppedOn(a, b) ==
    (a.v.phrase_rem > 1 /\ a.v.event_rem > 1) =>
        /\ b # None
        /\ b.v.phrase_rem = a.v.phrase_rem - 1
        /\ b.v.event_rem = a.v.event_rem - 1

\* C27: every Clock decrements both the recorder's and the pool's
\* ActivePhrase when present: event_remaining and phrase_remaining each
\* drop by one together (regeneration of the phrase or of the next event
\* takes over where one of them reaches 0).
C27_ClockTicksRecorderAndPool ==
    [][(last'.cmd = "Clock" /\ clock' = clock + 1) =>
          /\ record.active # None => SteppedOn(record.active, record'.active)
          /\ pool.active # None => SteppedOn(pool.active, pool'.active)]_vars

HoldsFromStart(e, index, on) ==
    /\ e.tag = "Hold"
    /\ e.onset.index = index
    /\ e.onset.start = on.start
    /\ pos(e.onset.wav) = on.start

\* C30: after AssignOnset(pad, alt, onset) the kit's pad holds the onset in
\* slot alt and the input's ActiveEvent is a Hold on that pad reading the
\* newly assigned onset from its start byte, whatever the ActiveEvent was
\* before and whether or not the pad's other alt is assigned.
C30_AssignOnsetHoldsNewOnset ==
    [][\A sl \in FreeSlots :
          AssignOnset(sl[1], sl[2], KitOnset(sl[2])) =>
             /\ pads'[sl[1]].onsets[sl[2] + 1] = Some(KitOnset(sl[2]))
             /\ HoldsFromStart(input'.active, sl[1], KitOnset(sl[2]))]_vars

\* the step is a grain read (handle_read)
ReadStep == last'.cmd = "Read"
RecordLive == record.active # None /\ record.active.v.active.tag # "Sync"
PoolLive == pool.active # None /\ pool.active.v.active.tag # "Sync"

BufferStep == last'.cmd = "Input" /\ quant /\ ~panicked'
DrainStep == last'.cmd = "Clock" /\ input.buffer # None /\ clock' = clock + 1

\* C33: the input buffer holds at most one pending event.  A PushEvent
\* that arrives while quant is true replaces whatever is buffered, without
\* a transition and without an entry in the recorder; the next Clock
\* realizes the buffered event alone (one transition by it, one entry for
\* it in the recorder) and empties the buffer, so of two PushEvents with no
\* Clock between them only the later one is realized.
C33_OnlyLatestRealized ==
    [][/\ BufferStep =>
            /\ input'.buffer = last'.event
            /\ input'.active = input.active
            /\ record' = record
       /\ DrainStep =>
            /\ last'.event = input.buffer
            /\ input'.buffer = None
            /\ input'.active \in trans(input.active, input.buffer.v, bias, pads)
            /\ record' = push(record, input.buffer.v, AsU16(clock'))]_vars

\* two PushEvents have arrived since the last Clock, Hold{0} and then
\* Sync: the buffer holds the Sync alone, and neither was realized
C33_Witness ==
    /\ quant
    /\ last.cmd = "Input"
    /\ last.pending = Some(EvHold(0))
    /\ last.event = Some(EvSync)
    /\ input.buffer = Some(EvSync)

\* C34: Stop does not clear the buffered input event.  An event buffered
\* before a Stop is realized by the first Clock after that Stop (a Clock
\* taken with quant false and the buffer full): that Clock transitions by
\* it, appends it to the recorder and empties the buffer, after the events
\* that were pushed and realized at once in between.
C34_BufferSurvivesStop ==
    [][/\ last'.cmd = "Stop" => input'.buffer = input.buffer
       /\ (last'.cmd = "Input" /\ ~quant) => input'.buffer = input.buffer
       /\ (ClockStep /\ ~quant /\ input.buffer # None) =>
            /\ ~panicked'
            /\ last'.event = input.buffer
            /\ input'.buffer = None
            /\ input'.active \in trans(input.active, input.buffer.v, bias, pads)
            /\ record' = push(record, input.buffer.v, AsU16(clock'))]_vars

\* the u16 subtractions the next command would make: step - v.step in the
\* retain of Record::push (a PushEvent realized at once, or the buffered
\* event on the next Clock), and step - v.step, v.step - step and
\* MAX_PHRASE_LEN - v.step in the bake and trim of a BakeRecord(len)
push_now_underflows == ~quant /\ retain_underflows(record.events, AsU16(clock))
push_on_clock_underflows ==
    input.buffer # None /\ retain_underflows(record.events, AsU16(clock + 1))
bake_record_underflows(len) ==
    LET rec1 == IF record.active = None
                THEN bake(record, AsU16(clock)) ELSE record
    IN  \/ record.active = None /\ bake_underflows(record.events, AsU16(clock))
        \/ trim_underflows(rec1.buffer, len)

\* C35: on every reachable sequence of Clock, Stop, PushEvent and
\* BakeRecord commands no u16 subtraction in Record::push, Record::bake or
\* Record::trim underflows: in no reachable state would the next PushEvent,
\* Clock or BakeRecord subtract a larger step from a smaller one.
C35_NoU16Underflow ==
    ~panicked =>
       /\ ~push_now_underflows
       /\ ~push_on_clock_underflows
       /\ \A len \in BakeLens : ~bake_record_underflows(len)

\* C36: Wav::pos() never underflows: whenever handle_read is about to read
\* a grain, the stream position of the selected onset's file is at least
\* the 44-byte header offset at each pos() call of that read (the one of
\* the Loop arm and the one after the grain), also on the first read of a
\* Loop whose onset was opened without a seek.
C36_PosNeverUnderflows ==
    LET e == source_event(read_source(input, record, pool))
    IN  (~panicked /\ reads_grain(tempo, e)) =>
            ~read_underflows(e, tempo, speed.base * speed.offset)

\* the step is a TakeRecord whose Record::take returns None
TakeNoneStep == last'.cmd = "TakeRecord" /\ take(record).ret = None

\* C37: Record::take is all-or-nothing: when it returns None (no trimmed
\* phrase, or no ActivePhrase) the recorder's trimmed phrase, ActivePhrase
\* and baked buffer are as they were, and TakeRecord changes neither the
\* kit nor the pool.
C37_TakeAllOrNothing ==
    [][TakeNoneStep =>
          /\ record'.phrase = record.phrase
          /\ record'.active = record.active
          /\ record'.buffer = record.buffer
          /\ pads' = pads
          /\ pool' = pool]_vars

\* PushPool(p) has just been taken and pad p holds a phrase
Pushed(p) ==
    /\ last.cmd = "PushPool"
    /\ pool.phrases # <<>>
    /\ pool.phrases[Len(pool.phrases)] = p
    /\ pads[p].phrase # None
\* the pool has an ActivePhrase playing pad p's phrase
Plays(p) == pool.active # None /\ pool.index = Some(p)

ChordCmd(tag) == IF tag = "BuildPool" THEN "PushPool" ELSE tag

\* C32: a pad pressed in Yield while the bank is in LoadKit, AssignKit or
\* BuildPool sends to the engine, last, the command of that chord carrying
\* the index of the pad that was pressed, also when another pad of the
\* bank is held.
C32_ChordCarriesPressedPad ==
    [][\A i \in UsedPads :
         (/\ NoteOn(BankBOffset + i)
          /\ handler.state = "Yield"
          /\ handler.bank_b.state.tag \in {"LoadKit", "AssignKit", "BuildPool"})
         => /\ handler'.sent # <<>>
            /\ handler'.sent[Len(handler'.sent)]
                 = Msg(ChordCmd(handler.bank_b.state.tag), Some(i))]_vars

\* C39: whenever the global state is Yield and none of the bank's Record,
\* Kit and Pool keys is held, the bank's handler state is LoadOnset.
C39_IdleBankLoadsOnsets ==
    (handler.state = "Yield" /\ handler.held \cap {RecordB, KitB, PoolB} = {})
        => handler.bank_b.state = BankLoadOnset

\* C40: once both channels are drained, the pool sequence held by the
\* TUI's BankHandler equals the sequence that the engine built from the
\* ClearPool and PushPool commands it received.
C40_TuiPoolIsEnginePool ==
    Drained => tui_handler.bank_b.pool = pool.phrases

====
